---------------------------- MODULE Spec2Model ----------------------------
(***************************************************************************)
(* A model of the leaps-bounds puzzle engine: the sparse grid layer with   *)
(* its adjacency masks, the time-travel stack, the cow hierarchy engine    *)
(* with its success evaluator, and the GodLevel test harness.              *)
(*                                                                         *)
(* Each component has its own specification over the shared variables:     *)
(*   SpecLayer  LevelLayer<T>         (src/src/level/board.rs)             *)
(*   SpecStack  StateStack<T>         (src/src/state_stack.rs)             *)
(*   SpecLevel  LevelState / Cows     (src/src/level/cow.rs)               *)
(*   SpecGod    GodLevel              (src/src/level/god_level.rs)         *)
(* A specification leaves the variables of the other components idle.      *)
(***************************************************************************)
EXTENDS Integers, Sequences, FiniteSets, TLC

VARIABLES
    layer,      \* SpecLayer: the LevelLayer under test
    layer_op,   \* SpecLayer: the call that produced it
    stack,      \* SpecStack: the StateStack under test
    stack_log,  \* SpecStack: the calls made on it so far
    level,      \* SpecLevel: the LevelState under test
    level_old,  \* SpecLevel: the LevelState before the last command
    level_cmd,  \* SpecLevel: the last command
    god,        \* SpecGod: the GodLevel under test
    god_log,    \* SpecGod: what its last handler did, and the run so far
    cow_level,  \* SpecCowLevel: the CowLevel under test
    cow_log,    \* SpecCowLevel: what its last handler did
    engine,     \* SpecEngine: one command_player call, taken one call of command at a time
    overworld,  \* SpecOverworld: the OverworldLevel under test
    overworld_log \* SpecOverworld: what its last handler did, and the reveal under way

vars ==
    <<layer, layer_op, stack, stack_log, level, level_old, level_cmd, god, god_log,
      cow_level, cow_log, engine, overworld, overworld_log>>

-----------------------------------------------------------------------------
(* Bounds of the model *)

\* the grid window of SpecLayer is the row (0..MaxX, 0) and the point (0, 1)
MaxX == 1

\* SpecStack makes at most MaxPushes push_state calls, and at most MaxPops
\* pop_state calls in a row
MaxPushes == 4
MaxPops == 5

-----------------------------------------------------------------------------
(* direction.rs *)

Direction == {"Up", "Right", "Down", "Left"}

\* enum Direction { Up = 0, Right = 1, Down = 2, Left = 3 }, `direction as u8`
Direction_as_u8(d) ==
    CASE d = "Up" -> 0 [] d = "Right" -> 1 [] d = "Down" -> 2 [] d = "Left" -> 3

Direction_increment(d) ==
    CASE d = "Up" -> "Right" [] d = "Right" -> "Down"
      [] d = "Down" -> "Left" [] d = "Left" -> "Up"

Direction_decrement(d) ==
    CASE d = "Up" -> "Left" [] d = "Right" -> "Up"
      [] d = "Down" -> "Right" [] d = "Left" -> "Down"

Direction_opposite(d) ==
    CASE d = "Up" -> "Down" [] d = "Right" -> "Left"
      [] d = "Down" -> "Up" [] d = "Left" -> "Right"

\* Direction::for_every calls its closure once per direction
Direction_for_every == <<"Up", "Right", "Down", "Left">>

-----------------------------------------------------------------------------
(* point.rs: Point(x, y) is <<x, y>> *)

Point_x(p) == p[1]
Point_y(p) == p[2]

\* the coordinates are i32: += 1 and -= 1 overflow at the ends of the range,
\* where a build with overflow checks panics and a build without them wraps
I32_MAX == 2147483647
I32_MIN == (0 - I32_MAX) - 1

i32_add_one(x) == IF x = I32_MAX THEN I32_MIN ELSE x + 1
i32_sub_one(x) == IF x = I32_MIN THEN I32_MAX ELSE x - 1

\* the += 1 or -= 1 of increment_2d leaves the range of i32
Point_increment_2d_overflows(p, d) ==
    CASE d = "Up" -> p[2] = I32_MIN
      [] d = "Right" -> p[1] = I32_MAX
      [] d = "Down" -> p[2] = I32_MAX
      [] d = "Left" -> p[1] = I32_MIN

\* the point after increment_2d, wrapped where it overflows
Point_increment_2d(p, d) ==
    CASE d = "Up" -> <<p[1], i32_sub_one(p[2])>>
      [] d = "Right" -> <<i32_add_one(p[1]), p[2]>>
      [] d = "Down" -> <<p[1], i32_add_one(p[2])>>
      [] d = "Left" -> <<i32_sub_one(p[1]), p[2]>>

\* impl Ord for Point: compare y first, then x
Point_lt(p, q) == p[2] < q[2] \/ (p[2] = q[2] /\ p[1] < q[1])

-----------------------------------------------------------------------------
(* level/cell/colour.rs, level/cell/surroundings.rs *)

Colour == {"Red", "Blue", "Green", "Orange"}

\* bit b of the u8 s
Bit(s, b) == (s \div (2 ^ b)) % 2

Surroundings_new == 0

\* self.0 |= 0x1 << bit, or self.0 &= !(0x1 << bit)
\* a mutant of Surroundings_set_surround: a bit once set is never cleared
Surroundings_set_surround_never_clears(s, d, value) ==
    LET b == Direction_as_u8(d)
    IN  IF value THEN s + (1 - Bit(s, b)) * (2 ^ b) ELSE s

Surroundings_set_surround(s, d, value) ==
    LET b == Direction_as_u8(d)
    IN  IF value THEN s + (1 - Bit(s, b)) * (2 ^ b)
                 ELSE s - Bit(s, b) * (2 ^ b)

-----------------------------------------------------------------------------
(* level/cell.rs: a cell is a record [tag, colour, direction, surround];   *)
(* "-" and 0 fill the fields a variant does not carry.                     *)

Cell(tag, c, d, s) == [tag |-> tag, colour |-> c, direction |-> d, surround |-> s]

GroundCell_Empty == Cell("Empty", "-", "-", 0)
GroundCell_ColouredBlock(c) == Cell("ColouredBlock", c, "-", 0)
GroundCell_Arrow(d) == Cell("Arrow", "-", d, 0)
GroundCell_ColouredArrow(c, d) == Cell("ColouredArrow", c, d, 0)
GroundCell_ArrowBlock(d) == Cell("ArrowBlock", "-", d, 0)
GroundCell_RotateRight == Cell("RotateRight", "-", "-", 0)
GroundCell_RotateLeft == Cell("RotateLeft", "-", "-", 0)
GroundCell_Fence(s) == Cell("Fence", "-", "-", s)
GroundCell_Wall(s) == Cell("Wall", "-", "-", s)

OverlayCell_Empty == Cell("Empty", "-", "-", 0)
OverlayCell_Success(s) == Cell("Success", "-", "-", s)
OverlayCell_Failure(s) == Cell("Failure", "-", "-", s)
OverlayCell_Input(s) == Cell("Input", "-", "-", s)
OverlayCell_Output(s) == Cell("Output", "-", "-", s)

OverworldCell_Empty == Cell("Empty", "-", "-", 0)
OverworldCell_Fence(s) == Cell("Fence", "-", "-", s)
OverworldCell_Wall(s) == Cell("Wall", "-", "-", s)
OverworldCell_BlockedPath(s) == Cell("BlockedPath", "-", "-", s)
OverworldCell_ClearPath(s) == Cell("ClearPath", "-", "-", s)
OverworldCell_Level(id, c) == [tag |-> "Level", colour |-> c, direction |-> "-", surround |-> 0, id |-> id]
OverworldCell_Finish == Cell("Finish", "-", "-", 0)

\* the variants that carry a Surroundings
OverworldMaskTags == {"Fence", "Wall", "BlockedPath", "ClearPath"}
GroundMaskTags == {"Fence", "Wall"}
OverlayMaskTags == {"Success", "Failure", "Input", "Output"}

\* std::mem::discriminant
discriminant(cell) == cell.tag

GroundCell_set_surround(cell, d, is_adjacent) ==
    IF cell.tag \in GroundMaskTags
    THEN [cell EXCEPT !.surround = Surroundings_set_surround(cell.surround, d, is_adjacent)]
    ELSE cell

OverlayCell_set_surround(cell, d, is_adjacent) ==
    IF cell.tag \in OverlayMaskTags
    THEN [cell EXCEPT !.surround = Surroundings_set_surround(cell.surround, d, is_adjacent)]
    ELSE cell

OverworldCell_set_surround(cell, d, is_adjacent) ==
    IF cell.tag \in OverworldMaskTags
    THEN [cell EXCEPT !.surround = Surroundings_set_surround(cell.surround, d, is_adjacent)]
    ELSE cell

\* the impl of Cell::set_surround that the cell's type selects; Fence and
\* Wall are treated alike by GroundCell and OverworldCell
Cell_set_surround(cell, d, is_adjacent) ==
    IF cell.tag \in OverlayMaskTags
    THEN OverlayCell_set_surround(cell, d, is_adjacent)
    ELSE IF cell.tag \in {"BlockedPath", "ClearPath"}
    THEN OverworldCell_set_surround(cell, d, is_adjacent)
    ELSE GroundCell_set_surround(cell, d, is_adjacent)

\* a mutant of Cell_calculate_surround: the neighbour's bit is left as it was
Cell_calculate_surround_one_sided(self, other, d) ==
    LET is_adjacent == discriminant(self) = discriminant(other)
    IN  [self |-> Cell_set_surround(self, d, is_adjacent), other |-> other]

\* Cell::calculate_surround(&mut self, &mut other, direction): both cells after it
Cell_calculate_surround(self, other, d) ==
    LET is_adjacent == discriminant(self) = discriminant(other)
    IN  [self |-> Cell_set_surround(self, d, is_adjacent),
         other |-> Cell_set_surround(other, Direction_opposite(d), is_adjacent)]

\* a mutant of GroundCell_is_solid_to_cows: only fences stop a cow
GroundCell_is_solid_to_cows_fences_only(cell) == cell.tag = "Fence"

GroundCell_is_solid_to_cows(cell) == cell.tag \in {"Fence", "Wall"}

\* a mutant of GroundCell_rotate_right: arrows turn the other way
GroundCell_rotate_right_anticlockwise(cell) ==
    CASE cell.tag \in {"Arrow", "ColouredArrow", "ArrowBlock"} ->
            [cell EXCEPT !.direction = Direction_decrement(cell.direction)]
      [] cell.tag = "RotateLeft" -> GroundCell_RotateRight
      [] cell.tag = "RotateRight" -> GroundCell_RotateLeft
      [] OTHER -> cell

GroundCell_rotate_right(cell) ==
    CASE cell.tag \in {"Arrow", "ColouredArrow", "ArrowBlock"} ->
            [cell EXCEPT !.direction = Direction_increment(cell.direction)]
      [] cell.tag = "RotateLeft" -> GroundCell_RotateRight
      [] cell.tag = "RotateRight" -> GroundCell_RotateLeft
      [] OTHER -> cell

\* a mutant of GroundCell_rotate_left: the two markers are left as they are
GroundCell_rotate_left_keeps_markers(cell) ==
    CASE cell.tag \in {"Arrow", "ColouredArrow", "ArrowBlock"} ->
            [cell EXCEPT !.direction = Direction_decrement(cell.direction)]
      [] OTHER -> cell

GroundCell_rotate_left(cell) ==
    CASE cell.tag \in {"Arrow", "ColouredArrow", "ArrowBlock"} ->
            [cell EXCEPT !.direction = Direction_decrement(cell.direction)]
      [] cell.tag = "RotateLeft" -> GroundCell_RotateRight
      [] cell.tag = "RotateRight" -> GroundCell_RotateLeft
      [] OTHER -> cell

-----------------------------------------------------------------------------
(* level/board.rs: LevelLayer<T> is [layer, default]; layer is the OrdMap, *)
(* a function whose domain is the set of stored points.                    *)

LevelLayer_new(default) == [layer |-> <<>>, default |-> default]

LevelLayer_get_cell(l, point) ==
    IF point \in DOMAIN l.layer THEN l.layer[point] ELSE l.default

\* a mutant of LevelLayer_set_cell_unchecked: the default is stored like any cell
LevelLayer_set_cell_unchecked_keeps_default(l, point, cell) ==
    [l EXCEPT !.layer = (point :> cell) @@ l.layer]

LevelLayer_set_cell_unchecked(l, point, cell) ==
    IF cell = l.default
    THEN [l EXCEPT !.layer = [q \in (DOMAIN l.layer) \ {point} |-> l.layer[q]]]
    ELSE [l EXCEPT !.layer = (point :> cell) @@ l.layer]

\* map_cell_unchecked with the closure of set_cell, which also updates the
\* captured cell: acc is [l, cell], the layer and the cell being written.
\* Each value is computed once: a, adjacent and both range over the one
\* value they denote.
LevelLayer_set_cell_direction(acc, point, d) ==
    CHOOSE next \in
        {[l |-> LevelLayer_set_cell_unchecked(a.l, adjacent, both.other), cell |-> both.self]
            : <<a, adjacent, both>> \in
                {<<a, adjacent,
                   Cell_calculate_surround(a.cell, LevelLayer_get_cell(a.l, adjacent), d)>>
                    : <<a, adjacent>> \in {acc} \X {Point_increment_2d(point, d)}}}
        : TRUE

RECURSIVE LevelLayer_set_cell_loop(_, _, _)
LevelLayer_set_cell_loop(acc, point, directions) ==
    IF directions = <<>> THEN acc
    ELSE CHOOSE last \in
            {LevelLayer_set_cell_loop(next, point, Tail(directions))
                : next \in {LevelLayer_set_cell_direction(acc, point, Head(directions))}}
            : TRUE

\* set_cell and map_cell compute the four neighbours of point: one of the
\* four increment_2d calls overflows
LevelLayer_set_cell_overflows(point) ==
    \E d \in Direction : Point_increment_2d_overflows(point, d)

LevelLayer_set_cell(l, point, cell) ==
    CHOOSE written \in
        {LevelLayer_set_cell_unchecked(acc.l, point, acc.cell)
            : acc \in {LevelLayer_set_cell_loop([l |-> l, cell |-> cell], point,
                                                Direction_for_every)}}
        : TRUE

\* the closures given to map_cell, by name
MapFunc(name, cell) ==
    CASE name = "rotate_right" -> GroundCell_rotate_right(cell)
      [] name = "rotate_left" -> GroundCell_rotate_left(cell)

LevelLayer_map_cell(l, point, func) ==
    LevelLayer_set_cell(l, point, MapFunc(func, LevelLayer_get_cell(l, point)))

LevelLayer_get_input_coordinates(l) ==
    {point \in DOMAIN l.layer : l.layer[point].tag = "Input"}

LevelLayer_get_output_coordinates(l) ==
    {point \in DOMAIN l.layer : l.layer[point].tag = "Output"}

\* a mutant of InOrder: the points are compared by x first, then by y
RECURSIVE InOrder_by_column(_)
InOrder_by_column(points) ==
    IF points = {} THEN <<>>
    ELSE LET first == CHOOSE p \in points : \A q \in points \ {p} :
                          p[1] < q[1] \/ (p[1] = q[1] /\ p[2] < q[2])
         IN  <<first>> \o InOrder_by_column(points \ {first})

\* the points of a set in the order of the OrdMap's iterator (impl Ord for Point)
RECURSIVE InOrder(_)
InOrder(points) ==
    IF points = {} THEN <<>>
    ELSE LET first == CHOOSE p \in points : \A q \in points \ {p} : Point_lt(p, q)
         IN  <<first>> \o InOrder(points \ {first})

\* filter_map over the coordinates: the colours of the coloured blocks on them
RECURSIVE LevelLayer_get_coloured_blocks(_, _)
LevelLayer_get_coloured_blocks(l, coordinates) ==
    IF coordinates = <<>> THEN <<>>
    ELSE LET cell == LevelLayer_get_cell(l, Head(coordinates))
             rest == LevelLayer_get_coloured_blocks(l, Tail(coordinates))
         IN  IF cell.tag = "ColouredBlock" THEN <<cell.colour>> \o rest ELSE rest

(* Board is [ground, overlay] *)

Board_new(default_cell, default_overlay) ==
    [ground |-> LevelLayer_new(default_cell), overlay |-> LevelLayer_new(default_overlay)]

Board_get_ground_cell(board, point) == LevelLayer_get_cell(board.ground, point)
Board_get_overlay_cell(board, point) == LevelLayer_get_cell(board.overlay, point)

Board_set_ground_cell(board, point, cell) ==
    [board EXCEPT !.ground = LevelLayer_set_cell(board.ground, point, cell)]

Board_set_overlay_cell(board, point, cell) ==
    [board EXCEPT !.overlay = LevelLayer_set_cell(board.overlay, point, cell)]

Board_map_ground_cell(board, point, func) ==
    [board EXCEPT !.ground = LevelLayer_map_cell(board.ground, point, func)]

Board_get_outputs(board) ==
    LevelLayer_get_coloured_blocks(board.ground,
        InOrder(LevelLayer_get_output_coordinates(board.overlay)))

Board_get_inputs(board) ==
    LevelLayer_get_coloured_blocks(board.ground,
        InOrder(LevelLayer_get_input_coordinates(board.overlay)))

\* the loop of set_inputs over the input coordinates
RECURSIVE Board_set_inputs_loop(_, _, _)
Board_set_inputs_loop(board, coordinates, input) ==
    IF coordinates = <<>> THEN board
    ELSE IF input # <<>>
         THEN Board_set_inputs_loop(
                Board_set_ground_cell(board, Head(coordinates), GroundCell_ColouredBlock(Head(input))),
                Tail(coordinates), Tail(input))
         ELSE Board_set_inputs_loop(
                Board_set_ground_cell(board, Head(coordinates), GroundCell_Empty),
                Tail(coordinates), input)

\* a mutant of Board_set_inputs: the capacity check is off by one
Board_set_inputs_off_by_one(board, input) ==
    LET input_coordinates == InOrder(LevelLayer_get_input_coordinates(board.overlay))
    IN  IF Len(input_coordinates) <= Len(input)
        THEN [ok |-> FALSE, board |-> board]
        ELSE [ok |-> TRUE, board |-> Board_set_inputs_loop(board, input_coordinates, input)]

\* Board::set_inputs: [ok, board]; ok = FALSE is Err(NotEnoughInputSpace)
Board_set_inputs(board, input) ==
    LET input_coordinates == InOrder(LevelLayer_get_input_coordinates(board.overlay))
    IN  IF Len(input_coordinates) < Len(input)
        THEN [ok |-> FALSE, board |-> board]
        ELSE [ok |-> TRUE, board |-> Board_set_inputs_loop(board, input_coordinates, input)]

-----------------------------------------------------------------------------
(* level.rs: SuccessState *)

SuccessState == {"Failed", "Running", "Succeeded"}

\* a mutant of SuccessState_combine: Running no longer outranks Succeeded
SuccessState_combine_running_lost(self, other) ==
    IF self = "Failed" \/ other = "Failed" THEN "Failed"
    ELSE IF self = "Running" /\ other = "Running" THEN "Running"
    ELSE "Succeeded"

\* a mutant of SuccessState_combine: unless self is Failed, other wins
SuccessState_combine_other_wins(self, other) ==
    IF self = "Failed" THEN "Failed" ELSE other

\* combine(&mut self, other): the value left in self
SuccessState_combine(self, other) ==
    IF self = "Failed" \/ other = "Failed" THEN "Failed"
    ELSE IF self = "Running" \/ other = "Running" THEN "Running"
    ELSE "Succeeded"

\* the module root in src/ predates is_running; god_level.rs calls it on a SuccessState
SuccessState_is_running(self) == self = "Running"

OverlayCell_success_state(cell) ==
    CASE cell.tag = "Success" -> "Succeeded"
      [] cell.tag = "Failure" -> "Failed"
      [] cell.tag \in {"Empty", "Input", "Output"} -> "Running"

-----------------------------------------------------------------------------
(* level/cow.rs.  A Command is [tag, direction, colour]; a Cow is
   [position, direction, children] (the sprite only matters to drawing);
   Cows is [player, parents, cows] with CowIndex i naming cows[i + 1].
   The engine threads st = [cows, board] through a tick. *)

Command_Auto == [tag |-> "Auto", direction |-> "-", colour |-> "-"]
Command_Halt == [tag |-> "Halt", direction |-> "-", colour |-> "-"]
Command_Walk(d) == [tag |-> "Walk", direction |-> d, colour |-> "-"]
Command_PlaceBlock(c) == [tag |-> "PlaceBlock", direction |-> "-", colour |-> c]
Command_RotateRight == [tag |-> "RotateRight", direction |-> "-", colour |-> "-"]
Command_RotateLeft == [tag |-> "RotateLeft", direction |-> "-", colour |-> "-"]

Cow_new(position, direction, children) ==
    [position |-> position, direction |-> direction, children |-> children]

\* a mutant of Cows_new: the player is listed with the roots when it has no parent
Cows_new_player_is_root(player, cow_data) ==
    LET n == Len(cow_data)
        is_child(i) == \E k \in 1 .. n : \E j \in 1 .. Len(cow_data[k].children) :
                           cow_data[k].children[j] = i
        parent_set == {i \in 0 .. (n - 1) : ~is_child(i)}
        RECURSIVE ascending(_)
        ascending(set) ==
            IF set = {} THEN <<>>
            ELSE LET least == CHOOSE i \in set : \A j \in set : i <= j
                 IN  <<least>> \o ascending(set \ {least})
    IN  [player |-> player,
         parents |-> ascending(parent_set),
         cows |-> [k \in 1 .. n |->
                     Cow_new(cow_data[k].position, cow_data[k].direction, cow_data[k].children)]]

\* cow_data is a sequence of [position, direction, children]
Cows_new(player, cow_data) ==
    LET n == Len(cow_data)
        is_child(i) == \E k \in 1 .. n : \E j \in 1 .. Len(cow_data[k].children) :
                           cow_data[k].children[j] = i
        parent_set == {i \in 0 .. (n - 1) : i # player /\ ~is_child(i)}
        RECURSIVE ascending(_)
        ascending(set) ==
            IF set = {} THEN <<>>
            ELSE LET least == CHOOSE i \in set : \A j \in set : i <= j
                 IN  <<least>> \o ascending(set \ {least})
    IN  [player |-> player,
         parents |-> ascending(parent_set),
         cows |-> [k \in 1 .. n |->
                     Cow_new(cow_data[k].position, cow_data[k].direction, cow_data[k].children)]]

Cows_get_cow(cows, cow_index) == cows.cows[cow_index + 1]

Cow_get_cell(cow, board) == Board_get_ground_cell(board, cow.position)

\* a mutant of Cow_walk_stop: a cow that cannot step does not turn either
Cow_walk_stop_turns_only_when_free(cow, board, direction) ==
    LET forwards == Point_increment_2d(cow.position, direction)
    IN  IF ~GroundCell_is_solid_to_cows(Board_get_ground_cell(board, forwards))
        THEN [cow EXCEPT !.direction = direction, !.position = forwards]
        ELSE cow

Cow_walk_stop(cow, board, direction) ==
    LET forwards == Point_increment_2d(cow.position, direction)
    IN  IF ~GroundCell_is_solid_to_cows(Board_get_ground_cell(board, forwards))
        THEN [cow EXCEPT !.direction = direction, !.position = forwards]
        ELSE [cow EXCEPT !.direction = direction]

\* a mutant of Cow_walk_bounce: between two solid cells the cow turns round
\* twice and ends facing the way it did
Cow_walk_bounce_turns_twice(cow, board) ==
    LET forwards == Point_increment_2d(cow.position, cow.direction)
        opposite_dir == Direction_opposite(cow.direction)
        backwards == Point_increment_2d(cow.position, opposite_dir)
    IN  IF ~GroundCell_is_solid_to_cows(Board_get_ground_cell(board, forwards))
        THEN [cow EXCEPT !.position = forwards]
        ELSE IF ~GroundCell_is_solid_to_cows(Board_get_ground_cell(board, backwards))
             THEN [cow EXCEPT !.direction = opposite_dir, !.position = backwards]
             ELSE cow

Cow_walk_bounce(cow, board) ==
    LET forwards == Point_increment_2d(cow.position, cow.direction)
        opposite_dir == Direction_opposite(cow.direction)
        backwards == Point_increment_2d(cow.position, opposite_dir)
    IN  IF ~GroundCell_is_solid_to_cows(Board_get_ground_cell(board, forwards))
        THEN [cow EXCEPT !.position = forwards]
        ELSE IF ~GroundCell_is_solid_to_cows(Board_get_ground_cell(board, backwards))
             THEN [cow EXCEPT !.direction = opposite_dir, !.position = backwards]
             ELSE [cow EXCEPT !.direction = opposite_dir]

Cow_place_block(cow, board, colour) ==
    Board_set_ground_cell(board, cow.position, GroundCell_ColouredBlock(colour))

Cow_rotate_block_right(cow, board) ==
    Board_map_ground_cell(board, cow.position, "rotate_right")

Cow_rotate_block_left(cow, board) ==
    Board_map_ground_cell(board, cow.position, "rotate_left")

Cows_set_cow(st, cow_index, cow) ==
    [st EXCEPT !.cows.cows[cow_index + 1] = cow]

\* a mutant of Cows_conditional_walk: every child must stand on the colour,
\* so a cow without children follows the arrow
Cows_conditional_walk_every_child(st, cow_index, colour, direction) ==
    LET cow == Cows_get_cow(st.cows, cow_index)
        is_correct_colour ==
            \A k \in 1 .. Len(cow.children) :
                Cow_get_cell(Cows_get_cow(st.cows, cow.children[k]), st.board)
                    = GroundCell_ColouredBlock(colour)
    IN  IF is_correct_colour
        THEN Cows_set_cow(st, cow_index, Cow_walk_stop(cow, st.board, direction))
        ELSE Cows_set_cow(st, cow_index, Cow_walk_bounce(cow, st.board))

Cows_conditional_walk(st, cow_index, colour, direction) ==
    LET cow == Cows_get_cow(st.cows, cow_index)
        is_correct_colour ==
            \E k \in 1 .. Len(cow.children) :
                Cow_get_cell(Cows_get_cow(st.cows, cow.children[k]), st.board)
                    = GroundCell_ColouredBlock(colour)
    IN  IF is_correct_colour
        THEN Cows_set_cow(st, cow_index, Cow_walk_stop(cow, st.board, direction))
        ELSE Cows_set_cow(st, cow_index, Cow_walk_bounce(cow, st.board))

\* the match of Cows::command on the cow's own command (lines 96 to 120)
Cows_command_own(st, cow_index, command) ==
    LET cow == Cows_get_cow(st.cows, cow_index)
        cell == Cow_get_cell(cow, st.board)
    IN  CASE command.tag = "Auto" ->
                (CASE cell.tag = "Arrow" ->
                        Cows_set_cow(st, cow_index, Cow_walk_stop(cow, st.board, cell.direction))
                   [] cell.tag = "ColouredArrow" ->
                        Cows_conditional_walk(st, cow_index, cell.colour, cell.direction)
                   [] OTHER ->
                        Cows_set_cow(st, cow_index, Cow_walk_bounce(cow, st.board)))
          [] command.tag = "Halt" -> st
          [] command.tag = "Walk" ->
                Cows_set_cow(st, cow_index, Cow_walk_stop(cow, st.board, command.direction))
          [] command.tag = "PlaceBlock" ->
                [st EXCEPT !.board = Cow_place_block(cow, st.board, command.colour)]
          [] command.tag = "RotateLeft" ->
                [st EXCEPT !.board = Cow_rotate_block_left(cow, st.board)]
          [] command.tag = "RotateRight" ->
                [st EXCEPT !.board = Cow_rotate_block_right(cow, st.board)]

\* a mutant of Cows_child_command: a cow on an arrow sends its children along it
Cows_child_command_arrows_walk(cell) ==
    CASE cell.tag = "ColouredBlock" -> Command_PlaceBlock(cell.colour)
      [] cell.tag \in {"ArrowBlock", "Arrow", "ColouredArrow"} -> Command_Walk(cell.direction)
      [] cell.tag = "RotateRight" -> Command_RotateRight
      [] cell.tag = "RotateLeft" -> Command_RotateLeft
      [] cell.tag \in {"Empty", "Fence", "Wall"} -> Command_Halt

\* the match of Cows::update_children on the ground under the parent (lines 132 to 148)
Cows_child_command(cell) ==
    CASE cell.tag = "ColouredBlock" -> Command_PlaceBlock(cell.colour)
      [] cell.tag = "ArrowBlock" -> Command_Walk(cell.direction)
      [] cell.tag = "RotateRight" -> Command_RotateRight
      [] cell.tag = "RotateLeft" -> Command_RotateLeft
      [] cell.tag \in {"Empty", "Arrow", "ColouredArrow", "Fence", "Wall"} -> Command_Halt

\* a record of the calls of Cows::command, kept when the threaded state has a
\* log field: the cow commanded and the command it was given, in call order
Cows_command_called(st, cow_index, command) ==
    IF "log" \in DOMAIN st
    THEN [st EXCEPT !.log = Append(@, [cow_index |-> cow_index, command |-> command])]
    ELSE st

RECURSIVE Cows_command(_, _, _)
RECURSIVE Cows_update_children(_, _)
RECURSIVE Cows_for_each_child(_, _, _)

\* a mutant of Cows_command: the cow acts first, its children read the ground afterwards
Cows_command_parent_first(st, cow_index, command) ==
    Cows_update_children(Cows_command_own(st, cow_index, command), cow_index)

Cows_command(st, cow_index, command) ==
    Cows_command_own(
        Cows_update_children(Cows_command_called(st, cow_index, command), cow_index),
        cow_index, command)

Cows_update_children(st, cow_index) ==
    LET cow == Cows_get_cow(st.cows, cow_index)
        cell == Cow_get_cell(cow, st.board)
    IN  Cows_for_each_child(st, cow.children, Cows_child_command(cell))

\* children.into_iter().for_each(...) of update_children
Cows_for_each_child(st, children, command) ==
    IF children = <<>> THEN st
    ELSE Cows_for_each_child(Cows_command(st, Head(children), command), Tail(children), command)

\* a mutant of Cows_for_each_parent: the roots are commanded last to first
RECURSIVE Cows_for_each_parent_reversed(_, _)
Cows_for_each_parent_reversed(st, parents) ==
    IF parents = <<>> THEN st
    ELSE Cows_for_each_parent_reversed(
            Cows_command(st, parents[Len(parents)], Command_Auto),
            SubSeq(parents, 1, Len(parents) - 1))

\* the loop of command_player over the cached parents
RECURSIVE Cows_for_each_parent(_, _)
Cows_for_each_parent(st, parents) ==
    IF parents = <<>> THEN st
    ELSE Cows_for_each_parent(Cows_command(st, Head(parents), Command_Auto), Tail(parents))

\* a mutant of Cows_command_player: the roots are commanded before the player
Cows_command_player_roots_first(st, command) ==
    Cows_command(Cows_for_each_parent(st, st.cows.parents), st.cows.player, command)

Cows_command_player(st, command) ==
    Cows_for_each_parent(Cows_command(st, st.cows.player, command), st.cows.parents)

\* the fold of Cows::success_state from position k of the herd on
RECURSIVE Cows_success_state_from(_, _, _, _)
Cows_success_state_from(cows, board, k, acc) ==
    IF k > Len(cows.cows) THEN acc
    ELSE Cows_success_state_from(cows, board, k + 1,
            SuccessState_combine(acc,
                OverlayCell_success_state(Board_get_overlay_cell(board, cows.cows[k].position))))

Cows_success_state(cows, board) == Cows_success_state_from(cows, board, 1, "Succeeded")

-----------------------------------------------------------------------------
(* level.rs: LevelState is [board, cows, animation_frame] *)

TOTAL_ANIMATION_FRAMES == 4
INITIAL_ANIMATION_FRAME == 0

LevelState_success_state(ls) == Cows_success_state(ls.cows, ls.board)

\* the tick is computed once: st ranges over the one result of command_player
LevelState_command(ls, command) ==
    CHOOSE next \in
        {[board |-> st.board,
          cows |-> st.cows,
          animation_frame |-> (ls.animation_frame + 1) % TOTAL_ANIMATION_FRAMES]
            : st \in {Cows_command_player([cows |-> ls.cows, board |-> ls.board], command)}}
        : TRUE

\* the module root in src/ predates auto, set_inputs and get_outputs, which
\* god_level.rs calls on a LevelState; command_player is the only tick cow.rs exports
LevelState_auto(ls) == LevelState_command(ls, Command_Auto)

LevelState_set_inputs(ls, input) ==
    LET r == Board_set_inputs(ls.board, input)
    IN  [ok |-> r.ok, state |-> [ls EXCEPT !.board = r.board]]

LevelState_get_outputs(ls) == Board_get_outputs(ls.board)

-----------------------------------------------------------------------------
(* SpecLayer: one LevelLayer, of ground cells or of overlay cells, written  *)
(* by set_cell and map_cell inside a small window of the unbounded grid.   *)

LayerPoints == {<<x, 0>> : x \in 0 .. MaxX} \cup {<<0, 1>>}

\* a coordinate at the end of the i32 range, written with one kind of cell
EdgePoints == {<<I32_MAX, 0>>}
EdgeInputs == {GroundCell_Wall(0), OverlayCell_Success(0)}

\* the builds of the crate: with overflow checks (debug) and without (release)
Builds == {"checked", "wrapping"}

\* masks a written cell may carry on entry
EntryMasks == {0, 6, 15}

GroundInputs ==
    {GroundCell_Empty, GroundCell_ColouredBlock("Red"), GroundCell_RotateRight}
    \cup {GroundCell_Fence(s) : s \in EntryMasks}
    \cup {GroundCell_Wall(s) : s \in EntryMasks}

OverlayInputs ==
    {OverlayCell_Empty}
    \cup {OverlayCell_Success(s) : s \in EntryMasks}
    \cup {OverlayCell_Failure(s) : s \in EntryMasks}
    \cup {OverlayCell_Input(s) : s \in EntryMasks}

LayerIsGround == layer_op.kind = "ground"

LayerInputs == IF LayerIsGround THEN GroundInputs ELSE OverlayInputs

IdleLayer == layer = LevelLayer_new(GroundCell_Empty) /\ layer_op = [kind |-> "idle"]
IdleStack == stack = <<>> /\ stack_log = <<>>
IdleLevel == level = <<>> /\ level_old = <<>> /\ level_cmd = <<>>
IdleGod == god = <<>> /\ god_log = <<>>
IdleCowLevel == cow_level = <<>> /\ cow_log = <<>>
IdleEngine == engine = <<>>
IdleOverworld == overworld = <<>> /\ overworld_log = <<>>

InitLayer ==
    /\ \E kind \in {"ground", "overlay"} :
        /\ layer = LevelLayer_new(IF kind = "ground" THEN GroundCell_Empty ELSE OverlayCell_Empty)
        /\ layer_op = [kind |-> kind, op |-> "new", point |-> <<0, 0>>, is_default |-> FALSE,
                       overflow |-> FALSE, panicked |-> FALSE, cell |-> layer.default]
    /\ IdleStack /\ IdleLevel /\ IdleGod /\ IdleCowLevel /\ IdleEngine /\ IdleOverworld

\* a call that overflows panics in a checked build, after which nothing more
\* is called, and goes on with the wrapped coordinate in a wrapping build
SetCell ==
    \E point \in LayerPoints \cup EdgePoints, cell \in LayerInputs, build \in Builds :
        LET overflow == LevelLayer_set_cell_overflows(point)
            panics == overflow /\ build = "checked"
        IN
        /\ ~layer_op.panicked
        /\ point \in EdgePoints => cell \in EdgeInputs
        /\ layer' = IF panics THEN layer ELSE LevelLayer_set_cell(layer, point, cell)
        /\ layer_op' = [kind |-> layer_op.kind, op |-> "set_cell", point |-> point,
                        is_default |-> (cell = layer.default),
                        overflow |-> overflow, panicked |-> panics, cell |-> cell]
        /\ UNCHANGED <<stack, stack_log, level, level_old, level_cmd, god, god_log, cow_level, cow_log, engine, overworld, overworld_log>>

MapCell ==
    \E point \in LayerPoints \cup EdgePoints, func \in {"rotate_right", "rotate_left"},
       build \in Builds :
        LET overflow == LevelLayer_set_cell_overflows(point)
            panics == overflow /\ build = "checked"
        IN
        /\ ~layer_op.panicked
        /\ LayerIsGround
        /\ layer' = IF panics THEN layer ELSE LevelLayer_map_cell(layer, point, func)
        /\ layer_op' = [kind |-> layer_op.kind, op |-> "map_cell", point |-> point,
                        is_default |-> (MapFunc(func, LevelLayer_get_cell(layer, point)) = layer.default),
                        overflow |-> overflow, panicked |-> panics,
                        cell |-> MapFunc(func, LevelLayer_get_cell(layer, point))]
        /\ UNCHANGED <<stack, stack_log, level, level_old, level_cmd, god, god_log, cow_level, cow_log, engine, overworld, overworld_log>>

NextLayer == SetCell \/ MapCell

SpecLayer == InitLayer /\ [][NextLayer]_vars

-----------------------------------------------------------------------------
(* Claims on the grid layer *)

HasMask(cell) == cell.tag \in GroundMaskTags \cup OverlayMaskTags

\* every coordinate the window's writes can touch
LayerReach == ((0 - 1) .. (MaxX + 1)) \X ((0 - 1) .. 2)

\* C1: in a layer whose default is Empty, after any sequence of set_cell and
\* map_cell calls, the bit d of a cell that carries a mask is set iff the
\* neighbour in direction d has the same variant tag; so the bit d of a cell
\* equals the opposite bit of that neighbour when both carry masks.
C1_AdjacencyConsistent ==
    \A a \in LayerReach, d \in Direction :
        LET cell == LevelLayer_get_cell(layer, a)
            other == LevelLayer_get_cell(layer, Point_increment_2d(a, d))
        IN  /\ HasMask(cell) =>
                (Bit(cell.surround, Direction_as_u8(d)) = 1 <=> cell.tag = other.tag)
            /\ (HasMask(cell) /\ HasMask(other)) =>
                Bit(cell.surround, Direction_as_u8(d))
                    = Bit(other.surround, Direction_as_u8(Direction_opposite(d)))

\* C1 witness: a cell was just overwritten by a wall next to a fence, which
\* does not point at it, while the fence pair below points at each other
C1_Witness ==
    /\ layer_op.op = "set_cell" /\ layer_op.point = <<1, 0>>
    /\ LevelLayer_get_cell(layer, <<1, 0>>).tag = "Wall"
    /\ LevelLayer_get_cell(layer, <<0, 0>>) = GroundCell_Fence(4)
    /\ LevelLayer_get_cell(layer, <<0, 1>>) = GroundCell_Fence(1)

\* C2: the sparse map never holds a key whose value is the layer default,
\* set_cell(c, default) removes c, and get_cell of a coordinate that is not
\* stored is the default.
C2_DefaultCompaction ==
    /\ \A p \in DOMAIN layer.layer : layer.layer[p] # layer.default
    /\ \A p \in LayerReach :
        p \notin DOMAIN layer.layer => LevelLayer_get_cell(layer, p) = layer.default
    /\ \A p \in LayerPoints :
        p \notin DOMAIN LevelLayer_set_cell(layer, p, layer.default).layer
    /\ (layer_op.kind # "idle" /\ layer_op.op # "new" /\ layer_op.is_default) =>
        layer_op.point \notin DOMAIN layer.layer

\* C2 witness: a default was just written between stored cells
C2_Witness ==
    /\ layer_op.op # "new" /\ layer_op.is_default
    /\ layer_op.point = <<0, 0>>
    /\ {<<1, 0>>, <<0, 1>>} \subseteq DOMAIN layer.layer

-----------------------------------------------------------------------------
(* state_stack.rs: StateStack<T> is [state_stack, stack_top, time_direction, *)
(* panicked]; panicked records that a call on it failed its assert! or its *)
(* unwrap(), after which nothing more is called on it.                     *)

Last(seq) == seq[Len(seq)]
Front(seq) == SubSeq(seq, 1, Len(seq) - 1)

StateStack_new(state) ==
    [state_stack |-> <<>>, stack_top |-> state, time_direction |-> "Forward",
     panicked |-> FALSE]

\* a mutant of StateStack_push_state: a push after an undo keeps the undone
\* state in the history, as a push in the Forward direction does
StateStack_push_state_keeps_undone(s, state) ==
    [s EXCEPT !.state_stack = Append(s.state_stack, s.stack_top),
              !.stack_top = state,
              !.time_direction = "Forward"]

StateStack_push_state(s, state) ==
    IF s.time_direction = "Forward"
    THEN [s EXCEPT !.state_stack = Append(s.state_stack, s.stack_top),
                   !.stack_top = state]
    ELSE IF s.state_stack = <<>>
         THEN [s EXCEPT !.panicked = TRUE]
         ELSE [s EXCEPT !.stack_top = state, !.time_direction = "Forward"]

\* a mutant of StateStack_pop_state: a second undo in a row takes the state
\* under the current one as the top without removing it from the history
StateStack_pop_state_no_pop(s) ==
    LET popped ==
            IF s.time_direction = "Forward"
            THEN IF s.state_stack # <<>>
                 THEN [s EXCEPT !.time_direction = "Backward"]
                 ELSE s
            ELSE [s EXCEPT !.stack_top = Last(s.state_stack)]
    IN  IF popped.state_stack = <<>>
        THEN [popped EXCEPT !.time_direction = "Forward"]
        ELSE popped

\* a mutant of StateStack_pop_state: the direction is not set to Forward
\* when the older states run out
StateStack_pop_state_stays_backward(s) ==
    IF s.time_direction = "Forward"
    THEN IF s.state_stack # <<>>
         THEN [s EXCEPT !.time_direction = "Backward"]
         ELSE s
    ELSE IF s.state_stack = <<>>
         THEN [s EXCEPT !.panicked = TRUE]
         ELSE [s EXCEPT !.stack_top = Last(s.state_stack),
                        !.state_stack = Front(s.state_stack)]

StateStack_pop_state(s) ==
    LET popped ==
            IF s.time_direction = "Forward"
            THEN IF s.state_stack # <<>>
                 THEN [s EXCEPT !.time_direction = "Backward"]
                 ELSE s
            ELSE IF s.state_stack = <<>>
                 THEN [s EXCEPT !.panicked = TRUE]
                 ELSE [s EXCEPT !.stack_top = Last(s.state_stack),
                                !.state_stack = Front(s.state_stack)]
    IN  IF popped.panicked THEN popped
        ELSE IF popped.state_stack = <<>>
             THEN [popped EXCEPT !.time_direction = "Forward"]
             ELSE popped

\* a mutant of StateStack_purge_states: the history is dropped and the top
\* is left as it is
StateStack_purge_states_keeps_top(s) ==
    [s EXCEPT !.state_stack = <<>>, !.time_direction = "Forward"]

StateStack_purge_states(s) ==
    [s EXCEPT !.stack_top = IF s.state_stack # <<>> THEN s.state_stack[1] ELSE s.stack_top,
              !.state_stack = <<>>,
              !.time_direction = "Forward"]

\* a mutant of StateStack_last_state: in the Forward direction it looks two
\* states back when it can
StateStack_last_state_one_further(s) ==
    IF s.time_direction = "Forward"
    THEN IF Len(s.state_stack) >= 2 THEN s.state_stack[Len(s.state_stack) - 1]
         ELSE IF s.state_stack # <<>> THEN Last(s.state_stack) ELSE s.stack_top
    ELSE s.stack_top

\* the accessors unwrap(): they are evaluated only where that succeeds
StateStack_last_state(s) ==
    IF s.time_direction = "Forward"
    THEN IF s.state_stack # <<>> THEN Last(s.state_stack) ELSE s.stack_top
    ELSE s.stack_top

\* a mutant of StateStack_current_state: the top is the current state in
\* both directions
StateStack_current_state_always_top(s) == s.stack_top

StateStack_current_state(s) ==
    IF s.time_direction = "Forward" THEN s.stack_top ELSE Last(s.state_stack)

-----------------------------------------------------------------------------
(* SpecStack: one StateStack created by new(S0); the i-th push_state call  *)
(* pushes the fresh state Si, written i.                                   *)
(* stack_log is [pushes, pops, in_order, discarded, op, before]: the number *)
(* of push_state calls, the number of pop_state calls since the last one,  *)
(* whether the calls so far are pushes followed by pops, the states that a *)
(* push in the Backward direction replaced as the top, the last call and   *)
(* the stack before it.                                                    *)

InitStack ==
    /\ stack = StateStack_new(0)
    /\ stack_log = [pushes |-> 0, pops |-> 0, in_order |-> TRUE, discarded |-> {},
                    op |-> "new", before |-> StateStack_new(0)]
    /\ IdleLayer /\ IdleLevel /\ IdleGod /\ IdleCowLevel /\ IdleEngine /\ IdleOverworld

PushState ==
    /\ ~stack.panicked
    /\ stack_log.pushes < MaxPushes
    /\ stack' = StateStack_push_state(stack, stack_log.pushes + 1)
    /\ stack_log' = [pushes |-> stack_log.pushes + 1, pops |-> 0,
                     in_order |-> stack_log.in_order /\ stack_log.pops = 0,
                     discarded |-> IF stack.time_direction = "Backward"
                                   THEN stack_log.discarded \cup {stack.stack_top}
                                   ELSE stack_log.discarded,
                     op |-> "push_state", before |-> stack]
    /\ UNCHANGED <<layer, layer_op, level, level_old, level_cmd, god, god_log, cow_level, cow_log, engine, overworld, overworld_log>>

PopState ==
    /\ ~stack.panicked
    /\ stack_log.pops < MaxPops
    /\ stack' = StateStack_pop_state(stack)
    /\ stack_log' = [stack_log EXCEPT !.pops = @ + 1, !.op = "pop_state", !.before = stack]
    /\ UNCHANGED <<layer, layer_op, level, level_old, level_cmd, god, god_log, cow_level, cow_log, engine, overworld, overworld_log>>

PurgeStates ==
    /\ ~stack.panicked
    /\ stack' = StateStack_purge_states(stack)
    /\ stack_log' = [stack_log EXCEPT !.pops = 0, !.in_order = FALSE,
                                      !.op = "purge_states", !.before = stack]
    /\ UNCHANGED <<layer, layer_op, level, level_old, level_cmd, god, god_log, cow_level, cow_log, engine, overworld, overworld_log>>

NextStack == PushState \/ PopState \/ PurgeStates

SpecStack == InitStack /\ [][NextStack]_vars

-----------------------------------------------------------------------------
(* Claims on the time-travel stack *)

Max(a, b) == IF a >= b THEN a ELSE b

\* C3: after new(S0), n pushes of S1..Sn and then k pops, current_state() is
\* S_max(0, n-k) (after push S1, push S2, pop, pop it is S0); a pop when no
\* older state exists leaves current_state() unchanged and does not fail.
C3_PopsRewind ==
    /\ (stack_log.in_order /\ ~stack.panicked) =>
        StateStack_current_state(stack) = Max(0, stack_log.pushes - stack_log.pops)
    /\ (stack_log.op = "pop_state" /\ stack_log.before.state_stack = <<>>) =>
        /\ ~stack.panicked
        /\ StateStack_current_state(stack) = StateStack_current_state(stack_log.before)

\* C3 witness: push S1, push S2, pop, pop
C3_Witness ==
    /\ stack_log.in_order /\ stack_log.pushes = 2 /\ stack_log.pops = 2
    /\ stack_log.op = "pop_state"
    /\ StateStack_current_state(stack) = 0

\* C4: a push_state(S3) in the Backward direction replaces the top by S3,
\* makes the direction Forward and leaves the older states unchanged; the
\* state it replaced (the undone S2) is never again the current_state() or
\* last_state(), whatever pop_state, push_state and purge_states calls follow.
C4_PushDiscardsRedo ==
    /\ (stack_log.op = "push_state" /\ stack_log.before.time_direction = "Backward") =>
        /\ stack.stack_top = stack_log.pushes
        /\ stack.time_direction = "Forward"
        /\ stack.state_stack = stack_log.before.state_stack
        /\ ~stack.panicked
    /\ ~stack.panicked =>
        \A undone \in stack_log.discarded :
            /\ StateStack_current_state(stack) # undone
            /\ StateStack_last_state(stack) # undone

\* C4 witness: S2 was undone and replaced by S3, and later calls (an undo
\* back to S0) have followed
C4_Witness ==
    /\ 2 \in stack_log.discarded
    /\ stack_log.pushes = 3
    /\ stack_log.op = "pop_state"
    /\ StateStack_current_state(stack) = 0

-----------------------------------------------------------------------------
(* SpecLevel: one LevelState ticked through LevelState::command.  The level
   is a walled pasture ArenaW cells wide and two cells high, built by the
   writes a level editor makes (set_ground_cell, set_overlay_cell); two of
   its ground cells are drawn from GroundChoices.  The herd is drawn from
   Herds: the shape LevelState::new builds (a player, a root and the root's
   child) or a chain player -> child -> grandchild.
   level_old is the state before the last tick and level_cmd its command. *)

ArenaW == 3

ArenaInterior == (1 .. ArenaW) \X {1, 2}
ArenaRing == ((0 .. (ArenaW + 1)) \X {0, 1, 2, 3}) \ ArenaInterior

RECURSIVE Board_set_ground_cells(_, _, _)
Board_set_ground_cells(board, points, cell) ==
    IF points = <<>> THEN board
    ELSE Board_set_ground_cells(Board_set_ground_cell(board, Head(points), cell), Tail(points), cell)

ArenaOverlay == <<
    [point |-> <<1, 1>>, cell |-> OverlayCell_Input(Surroundings_new)],
    [point |-> <<1, 2>>, cell |-> OverlayCell_Output(Surroundings_new)],
    [point |-> <<ArenaW, 1>>, cell |-> OverlayCell_Success(Surroundings_new)],
    [point |-> <<ArenaW, 2>>, cell |-> OverlayCell_Failure(Surroundings_new)] >>

RECURSIVE Board_set_overlay_cells(_, _)
Board_set_overlay_cells(board, writes) ==
    IF writes = <<>> THEN board
    ELSE Board_set_overlay_cells(
            Board_set_overlay_cell(board, Head(writes).point, Head(writes).cell), Tail(writes))

ArenaBoard ==
    Board_set_overlay_cells(
        Board_set_ground_cells(Board_new(GroundCell_Empty, OverlayCell_Empty),
                               InOrder(ArenaRing), GroundCell_Wall(Surroundings_new)),
        ArenaOverlay)

GroundChoices ==
    {GroundCell_Empty, GroundCell_ColouredBlock("Red"), GroundCell_ArrowBlock("Down"),
     GroundCell_RotateRight, GroundCell_ColouredArrow("Red", "Down"),
     GroundCell_Wall(Surroundings_new)}

Herds ==
    {<< Cow_new(<<1, 1>>, "Right", <<>>),
        Cow_new(<<2, 1>>, "Right", <<2>>),
        Cow_new(<<2, 2>>, "Right", <<>>) >>,
     << Cow_new(<<2, 1>>, "Right", <<1>>),
        Cow_new(<<2, 2>>, "Right", <<2>>),
        Cow_new(<<1, 2>>, "Right", <<>>) >>}

PlayerCommands == {Command_Auto, Command_Halt} \cup {Command_Walk(d) : d \in Direction}

\* a herd with two roots, cows 1 and 2: the child of cow 1 stands where cow 2
\* does, on the cell cow 2 reads
TwoRootHerd ==
    << Cow_new(<<1, 1>>, "Right", <<>>),
       Cow_new(<<2, 1>>, "Right", <<3>>),
       Cow_new(<<2, 2>>, "Right", <<>>),
       Cow_new(<<2, 2>>, "Right", <<>>) >>

\* a player facing a fence, with a child between the fence and the wall
FencedHerd ==
    << Cow_new(<<2, 1>>, "Down", <<1>>),
       Cow_new(<<1, 2>>, "Right", <<>>) >>

LevelStarts ==
    (GroundChoices \X GroundChoices \X Herds)
        \cup {<<GroundCell_RotateRight, GroundCell_Arrow("Down"), TwoRootHerd>>}
        \cup {<<ground, GroundCell_Fence(Surroundings_new), FencedHerd>> :
                 ground \in {GroundCell_Empty, GroundCell_ArrowBlock("Down")}}

InitLevel ==
    /\ \E start \in LevelStarts :
          level = [board |-> Board_set_ground_cell(
                                Board_set_ground_cell(ArenaBoard, <<2, 1>>, start[1]),
                                <<2, 2>>, start[2]),
                   cows |-> Cows_new(0, start[3]),
                   animation_frame |-> INITIAL_ANIMATION_FRAME]
    /\ level_old = level
    /\ level_cmd = [tag |-> "new"]
    /\ IdleLayer /\ IdleStack /\ IdleGod /\ IdleCowLevel /\ IdleEngine /\ IdleOverworld

LevelCommand ==
    /\ \E command \in PlayerCommands :
          /\ level' = LevelState_command(level, command)
          /\ level_cmd' = command
    /\ level_old' = level
    /\ UNCHANGED <<layer, layer_op, stack, stack_log, god, god_log, cow_level, cow_log, engine, overworld, overworld_log>>

NextLevel == LevelCommand

SpecLevel == InitLevel /\ [][NextLevel]_vars

-----------------------------------------------------------------------------
(* Claims about the herd, checked under SpecLevel *)

CowIndices == 0 .. (Len(level.cows.cows) - 1)

LevelSt(ls) == [cows |-> ls.cows, board |-> ls.board]

\* the classification of one actor, read off its overlay cell
ClassOf(ls, cow) ==
    LET tag == Board_get_overlay_cell(ls.board, cow.position).tag
    IN  IF tag = "Success" THEN "Succeeded"
        ELSE IF tag = "Failure" THEN "Failed"
        ELSE "Running"

\* every way of listing some of the actors of the herd, each at most once
Selections(n) ==
    UNION {{sel \in [1 .. k -> 1 .. n] : \A i, j \in 1 .. k : sel[i] = sel[j] => i = j}
           : k \in 0 .. n}

\* C5: Cows::success_state is Failed if any actor stands on a Failure cell,
\* else Running if any actor stands on an Empty, Input or Output cell, else
\* Succeeded; a herd with no actors is Succeeded.  Checked for the herd of
\* every reachable level and for every listing of some of its actors.
C5_SuccessStateClassifies ==
    \A sel \in Selections(Len(level.cows.cows)) :
        LET actors == [k \in 1 .. Len(sel) |-> level.cows.cows[sel[k]]]
            herd == [level.cows EXCEPT !.cows = actors]
            classes == {ClassOf(level, actors[k]) : k \in 1 .. Len(actors)}
            result == Cows_success_state(herd, level.board)
        IN  /\ ("Failed" \in classes) => result = "Failed"
            /\ ("Failed" \notin classes /\ "Running" \in classes) => result = "Running"
            /\ (classes \subseteq {"Succeeded"}) => result = "Succeeded"
            /\ (actors = <<>>) => result = "Succeeded"

\* after a tick the three actors are classified Running, Succeeded and Failed
C5_Witness ==
    /\ level_cmd \in PlayerCommands
    /\ {ClassOf(level, level.cows.cows[k]) : k \in 1 .. Len(level.cows.cows)}
          = {"Running", "Succeeded", "Failed"}
    /\ ClassOf(level, level.cows.cows[1]) = "Succeeded"
    /\ LevelState_success_state(level) = "Failed"

AllCommands ==
    {Command_Auto, Command_Halt, Command_RotateRight, Command_RotateLeft,
     Command_Walk("Up"), Command_Walk("Left"), Command_PlaceBlock("Blue")}

Descendants(ls, cow_index) ==
    LET kids(i) == {ls.cows.cows[i + 1].children[k] : k \in 1 .. Len(ls.cows.cows[i + 1].children)}
        RECURSIVE below(_)
        below(i) == kids(i) \cup UNION {below(j) : j \in kids(i)}
    IN  below(cow_index)

\* C6: in Cows::command(P, cmd) every child of P is given the command derived
\* from the ground under P before P moves, and the subtrees of the children
\* are complete before cmd is applied to P: what the descendants of P do does
\* not depend on cmd, and P's own move is made on the board they leave.  If P
\* stands on ColouredBlock(c) with one child C, then after command(P, Auto)
\* C has not moved and the ground under C is ColouredBlock(c); the same is
\* seen after a whole tick for the player and for every root.
C6_ChildrenBeforeParent ==
    /\ \A P \in CowIndices :
        \A halted \in {Cows_command(LevelSt(level), P, Command_Halt)} :
          LET pre == LevelSt(level)
              parent == Cows_get_cow(pre.cows, P)
              cell == Cow_get_cell(parent, pre.board)
          IN  /\ \A command \in AllCommands :
                  \A post \in {Cows_command(pre, P, command)} :
                        /\ \A D \in Descendants(level, P) :
                              Cows_get_cow(post.cows, D) = Cows_get_cow(halted.cows, D)
                        /\ post = Cows_command_own(halted, P, command)
              /\ \A k \in 1 .. Len(parent.children) :
                    (Cows_get_cow(pre.cows, parent.children[k]).children = <<>>
                            /\ cell.tag = "ArrowBlock")
                        => Cows_get_cow(halted.cows, parent.children[k]).direction = cell.direction
    /\ \A P \in CowIndices :
          LET pre == LevelSt(level)
              cow == Cows_get_cow(pre.cows, P)
              cell == Cow_get_cell(cow, pre.board)
          IN  (cell.tag = "ColouredBlock" /\ Len(cow.children) = 1)
                  => \A post \in {Cows_command(pre, P, Command_Auto)} :
                     /\ Cows_get_cow(post.cows, cow.children[1]).position
                            = Cows_get_cow(pre.cows, cow.children[1]).position
                     /\ Board_get_ground_cell(post.board,
                            Cows_get_cow(pre.cows, cow.children[1]).position) = cell
    /\ level_cmd \in PlayerCommands =>
          \A P \in {level.cows.player} \cup {level.cows.parents[k] : k \in 1 .. Len(level.cows.parents)} :
              LET cow == Cows_get_cow(level_old.cows, P)
                  cell == Cow_get_cell(cow, level_old.board)
              IN  (cell.tag = "ColouredBlock" /\ Len(cow.children) = 1)
                      => /\ Cows_get_cow(level.cows, cow.children[1]).position
                                = Cows_get_cow(level_old.cows, cow.children[1]).position
                         /\ Board_get_ground_cell(level.board,
                                Cows_get_cow(level.cows, cow.children[1]).position) = cell

\* a tick in which a root left its Red block and its child, standing on
\* another kind of ground, was left standing on a Red block
C6_Witness ==
    /\ level_cmd \in PlayerCommands
    /\ \E k \in 1 .. Len(level.cows.parents) :
          LET P == level.cows.parents[k]
              cow == Cows_get_cow(level_old.cows, P)
          IN  /\ Len(cow.children) = 1
              /\ Cow_get_cell(cow, level_old.board) = GroundCell_ColouredBlock("Red")
              /\ Cow_get_cell(Cows_get_cow(level_old.cows, cow.children[1]), level_old.board)
                    # GroundCell_ColouredBlock("Red")
              /\ Cows_get_cow(level.cows, P).position # cow.position
              /\ Cow_get_cell(Cows_get_cow(level.cows, P), level.board)
                    # GroundCell_ColouredBlock("Red")
              /\ Cows_get_cow(level.cows, cow.children[1]).position
                    = Cows_get_cow(level_old.cows, cow.children[1]).position
              /\ Cow_get_cell(Cows_get_cow(level.cows, cow.children[1]), level.board)
                    = GroundCell_ColouredBlock("Red")

-----------------------------------------------------------------------------
(* level/god_level.rs: tests and verdicts.  A Test is [input, output]; a
   TestTarget or TestResult is [tag] or [tag, colours]; a MetaTestResult is
   [test, result].  Times are whole milliseconds. *)

Test_new(input, output) == [input |-> input, output |-> output]

TestTarget_Reject == [tag |-> "Reject"]
TestTarget_Accept == [tag |-> "Accept"]
TestTarget_AcceptWith(colours) == [tag |-> "AcceptWith", colours |-> colours]

TestResult_Reject == [tag |-> "Reject"]
TestResult_AcceptWith(colours) == [tag |-> "AcceptWith", colours |-> colours]
TestResult_NotEnoughInputSpace == [tag |-> "NotEnoughInputSpace"]

MetaTestResult_new(test, result) == [test |-> test, result |-> result]

MetaTestResult_is_passed(self) ==
    CASE self.test.output.tag = "Reject" /\ self.result.tag = "Reject" -> TRUE
      [] self.test.output.tag = "Accept" /\ self.result.tag = "AcceptWith" -> TRUE
      [] self.test.output.tag = "AcceptWith" /\ self.result.tag = "AcceptWith" ->
            self.test.output.colours = self.result.colours
      [] OTHER -> FALSE

(* GodLevelRunningState is [current_state, old_state, animation_time, speed] *)

GodLevelRunningState_new(initial_state, speed) ==
    [current_state |-> initial_state, old_state |-> initial_state,
     animation_time |-> speed, speed |-> speed]

\* a mutant of GodLevelRunningState_result: the two terminal states are swapped
GodLevelRunningState_result_swapped(self) ==
    LET success_state == LevelState_success_state(self.current_state)
    IN  CASE success_state = "Succeeded" -> [some |-> TRUE, result |-> TestResult_Reject]
          [] success_state = "Failed" ->
                [some |-> TRUE,
                 result |-> TestResult_AcceptWith(LevelState_get_outputs(self.current_state))]
          [] success_state = "Running" -> [some |-> FALSE]

\* Option<TestResult>: [some |-> FALSE] is None
GodLevelRunningState_result(self) ==
    LET success_state == LevelState_success_state(self.current_state)
    IN  CASE success_state = "Failed" -> [some |-> TRUE, result |-> TestResult_Reject]
          [] success_state = "Succeeded" ->
                [some |-> TRUE,
                 result |-> TestResult_AcceptWith(LevelState_get_outputs(self.current_state))]
          [] success_state = "Running" -> [some |-> FALSE]

GodLevelRunningState_is_complete(self) ==
    /\ ~SuccessState_is_running(LevelState_success_state(self.current_state))
    /\ self.animation_time > self.speed

\* a mutant of GodLevelRunningState_step: a finished level is ticked on
GodLevelRunningState_step_ticks_when_done(self, dt) ==
    LET animation_time == self.animation_time + dt
    IN  IF animation_time < self.speed
        THEN [self EXCEPT !.animation_time = animation_time]
        ELSE [self EXCEPT !.animation_time = 0,
                          !.old_state = self.current_state,
                          !.current_state = LevelState_auto(self.current_state)]

GodLevelRunningState_step(self, dt) ==
    LET animation_time == self.animation_time + dt
    IN  IF animation_time < self.speed
              \/ ~SuccessState_is_running(LevelState_success_state(self.current_state))
        THEN [self EXCEPT !.animation_time = animation_time]
        ELSE [self EXCEPT !.animation_time = 0,
                          !.old_state = self.current_state,
                          !.current_state = LevelState_auto(self.current_state)]

(* GodLevelStatus is [tag] for Stopped and Succeeded, [tag, test, state] for
   Paused and Playing, [tag, result] for Report; [tag |-> "Panic"] stands
   for a failed assert! or panic! *)

GodLevelStatus_Stopped == [tag |-> "Stopped"]
GodLevelStatus_Paused(test, state) == [tag |-> "Paused", test |-> test, state |-> state]
GodLevelStatus_Playing(test, state) == [tag |-> "Playing", test |-> test, state |-> state]
GodLevelStatus_Report(result) == [tag |-> "Report", result |-> result]
GodLevelStatus_Succeeded == [tag |-> "Succeeded"]
GodLevelStatus_Panic == [tag |-> "Panic"]

GodLevelStatus_new == GodLevelStatus_Stopped

GodLevelStatus_stop(self) == GodLevelStatus_Stopped

GodLevelStatus_is_succeeded(self) == self.tag = "Succeeded"
GodLevelStatus_is_stopped(self) == self.tag = "Stopped"

GodLevelStatus_start(self, state, test, speed) ==
    IF ~GodLevelStatus_is_stopped(self) THEN GodLevelStatus_Panic
    ELSE LET set == LevelState_set_inputs(state, test.input)
         IN  IF set.ok
             THEN GodLevelStatus_Playing(test, GodLevelRunningState_new(set.state, speed))
             ELSE GodLevelStatus_Report(MetaTestResult_new(test, TestResult_NotEnoughInputSpace))

\* a mutant of GodLevelStatus_pause: a Playing status is left as the Stopped
\* that mem::replace put in its place
GodLevelStatus_pause_drops_run(self) ==
    IF self.tag = "Playing" THEN GodLevelStatus_Stopped ELSE self

GodLevelStatus_pause(self) ==
    IF self.tag = "Playing" THEN GodLevelStatus_Paused(self.test, self.state) ELSE self

GodLevelStatus_play(self) ==
    CASE self.tag = "Stopped" -> GodLevelStatus_Panic
      [] self.tag = "Paused" -> GodLevelStatus_Playing(self.test, self.state)
      [] OTHER -> self

\* the Playing arm of GodLevelStatus::step once state.step(dt) has run (lines 394 to 402);
\* stepped is computed once: state ranges over the one running state it denotes
GodLevelStatus_step_playing(test, stepped) ==
    CHOOSE status \in
        {IF ~GodLevelRunningState_is_complete(state)
         THEN GodLevelStatus_Playing(test, state)
         ELSE IF GodLevelRunningState_result(state).some
              THEN GodLevelStatus_Report(
                      MetaTestResult_new(test, GodLevelRunningState_result(state).result))
              ELSE GodLevelStatus_Playing(test, state)
            : state \in {stepped}}
        : TRUE

\* a mutant of GodLevelStatus_step: a confirmed report always returns to Stopped
GodLevelStatus_step_report_stops(self, dt, confirm) ==
    CASE self.tag = "Playing" ->
            GodLevelStatus_step_playing(self.test, GodLevelRunningState_step(self.state, dt))
      [] self.tag = "Report" -> IF confirm THEN GodLevelStatus_Stopped ELSE self
      [] OTHER -> self

\* confirm: keyboard.is_pressed("Space") || keyboard.is_pressed("Enter")
GodLevelStatus_step(self, dt, confirm) ==
    CASE self.tag = "Playing" ->
            GodLevelStatus_step_playing(self.test, GodLevelRunningState_step(self.state, dt))
      [] self.tag = "Report" ->
            IF confirm
            THEN IF MetaTestResult_is_passed(self.result)
                 THEN GodLevelStatus_Succeeded
                 ELSE GodLevelStatus_Stopped
            ELSE self
      [] OTHER -> self

(* The palette: a PaletteResult is [cell_type, colour, direction] *)

PaletteResult(cell_type, colour, direction) ==
    [cell_type |-> cell_type, colour |-> colour, direction |-> direction]

\* TryFrom<PaletteResult<CellType>> for GroundCell: [ok, cell]
GroundCell_try_from(value) ==
    CASE value.cell_type = "Empty" -> [ok |-> TRUE, cell |-> GroundCell_Empty]
      [] value.cell_type = "ColouredBlock" ->
            [ok |-> TRUE, cell |-> GroundCell_ColouredBlock(value.colour)]
      [] value.cell_type = "Arrow" -> [ok |-> TRUE, cell |-> GroundCell_Arrow(value.direction)]
      [] value.cell_type = "ColouredArrow" ->
            [ok |-> TRUE, cell |-> GroundCell_ColouredArrow(value.colour, value.direction)]
      [] value.cell_type = "ArrowBlock" ->
            [ok |-> TRUE, cell |-> GroundCell_ArrowBlock(value.direction)]
      [] value.cell_type = "RotateLeft" -> [ok |-> TRUE, cell |-> GroundCell_RotateLeft]
      [] value.cell_type = "RotateRight" -> [ok |-> TRUE, cell |-> GroundCell_RotateRight]
      [] value.cell_type = "Fence" -> [ok |-> TRUE, cell |-> GroundCell_Fence(Surroundings_new)]
      [] value.cell_type = "Wall" -> [ok |-> TRUE, cell |-> GroundCell_Wall(Surroundings_new)]
      [] value.cell_type = "Overlay" -> [ok |-> FALSE, cell |-> GroundCell_Empty]

\* TryFrom<PaletteResult<CellType>> for OverlayCell: [ok, cell]
OverlayCell_try_from(value) ==
    CASE value.cell_type = "Overlay" /\ value.colour = "Green" ->
            [ok |-> TRUE, cell |-> OverlayCell_Success(Surroundings_new)]
      [] value.cell_type = "Overlay" /\ value.colour = "Red" ->
            [ok |-> TRUE, cell |-> OverlayCell_Failure(Surroundings_new)]
      [] value.cell_type = "Overlay" /\ value.colour = "Orange" ->
            [ok |-> TRUE, cell |-> OverlayCell_Input(Surroundings_new)]
      [] value.cell_type = "Overlay" /\ value.colour = "Blue" ->
            [ok |-> TRUE, cell |-> OverlayCell_Output(Surroundings_new)]
      [] value.cell_type = "Empty" -> [ok |-> TRUE, cell |-> OverlayCell_Empty]
      [] OTHER -> [ok |-> FALSE, cell |-> OverlayCell_Empty]

\* a mutant of Board_set_cell_at_point: a value the ground accepts is not
\* offered to the overlay
Board_set_cell_at_point_one_layer(board, index, cell_type) ==
    LET ground == GroundCell_try_from(cell_type)
        overlay == OverlayCell_try_from(cell_type)
    IN  IF ground.ok THEN Board_set_ground_cell(board, index, ground.cell)
        ELSE IF overlay.ok THEN Board_set_overlay_cell(board, index, overlay.cell)
        ELSE board

\* index is get_grid_index(point), the grid cell under the pixel clicked
Board_set_cell_at_point(board, index, cell_type) ==
    LET ground == GroundCell_try_from(cell_type)
        overlay == OverlayCell_try_from(cell_type)
        board_1 == IF ground.ok THEN Board_set_ground_cell(board, index, ground.cell) ELSE board
    IN  IF overlay.ok THEN Board_set_overlay_cell(board_1, index, overlay.cell) ELSE board_1

\* the module root in src/ predates set_cell_at_point, which GodLevel::click
\* calls on its LevelState
LevelState_set_cell_at_point(ls, index, cell_type) ==
    [ls EXCEPT !.board = Board_set_cell_at_point(ls.board, index, cell_type)]

LevelState_new ==
    [board |-> Board_new(GroundCell_Empty, OverlayCell_Empty),
     cows |-> Cows_new(0, << Cow_new(<<3, 3>>, "Right", <<>>),
                             Cow_new(<<10, 10>>, "Right", <<2>>),
                             Cow_new(<<10, 5>>, "Right", <<>>) >>),
     animation_frame |-> INITIAL_ANIMATION_FRAME]

(* GodLevel is [initial_state, running_state, speed, tests, current_test,
   panicked]; the control panel is the source of the buttons and palette
   values the clicks carry.  current_test counts from 0 as in the source. *)

MIN_SPEED == 500

GodLevel_new(tests) ==
    [initial_state |-> LevelState_new,
     running_state |-> GodLevelStatus_new,
     speed |-> MIN_SPEED,
     tests |-> tests,
     current_test |-> 0,
     panicked |-> FALSE]

\* a mutant of GodLevel_is_success: the last test is not waited for
GodLevel_is_success_one_early(self) == self.current_test + 1 >= Len(self.tests)

GodLevel_is_success(self) == self.current_test >= Len(self.tests)

\* a mutant of GodLevel_next_test: the status is not stopped before start
GodLevel_next_test_without_stop(self) ==
    IF self.current_test >= Len(self.tests)
    THEN [self EXCEPT !.panicked = TRUE]
    ELSE LET test == self.tests[self.current_test + 1]
             status == GodLevelStatus_start(self.running_state,
                                            self.initial_state, test, self.speed)
         IN  [self EXCEPT !.running_state = status,
                          !.current_test = self.current_test + 1,
                          !.panicked = (status.tag = "Panic")]

GodLevel_next_test(self) ==
    IF self.current_test >= Len(self.tests)
    THEN [self EXCEPT !.panicked = TRUE]
    ELSE LET test == self.tests[self.current_test + 1]
             status == GodLevelStatus_start(GodLevelStatus_stop(self.running_state),
                                            self.initial_state, test, self.speed)
         IN  [self EXCEPT !.running_state = status,
                          !.current_test = self.current_test + 1,
                          !.panicked = (status.tag = "Panic")]

GodLevel_control_button_press(self, button) ==
    CASE button = "Play" ->
            IF ~GodLevelStatus_is_stopped(self.running_state)
            THEN [self EXCEPT !.running_state = GodLevelStatus_play(self.running_state)]
            ELSE GodLevel_next_test([self EXCEPT !.current_test = 0])
      [] button = "Stop" ->
            [self EXCEPT !.current_test = 0,
                         !.running_state = GodLevelStatus_stop(self.running_state)]
      [] button = "Pause" ->
            [self EXCEPT !.running_state = GodLevelStatus_pause(self.running_state)]

GodLevel_called_into(self) ==
    [self EXCEPT !.current_test = 0,
                 !.running_state = GodLevelStatus_stop(self.running_state)]

\* a mutant of GodLevel_click_board: the board is edited in every status
GodLevel_click_board_any_status(self, index, value) ==
    [god |-> [self EXCEPT !.initial_state =
                    LevelState_set_cell_at_point(self.initial_state, index, value)],
     handled |-> TRUE]

\* a click on the board, outside the control panel: [god, handled]
GodLevel_click_board(self, index, value) ==
    IF ~GodLevelStatus_is_stopped(self.running_state)
    THEN [god |-> self, handled |-> FALSE]
    ELSE [god |-> [self EXCEPT !.initial_state =
                        LevelState_set_cell_at_point(self.initial_state, index, value)],
          handled |-> TRUE]

\* [god, next_scene]; next_scene is "Continue" or "Return(Bool(true))"
\* running_state.step is computed once: status ranges over its one result
GodLevel_step(self, dt, confirm) ==
    CHOOSE outcome \in
        {IF GodLevelStatus_is_succeeded(status)
         THEN IF GodLevel_is_success(self)
              THEN [god |-> [self EXCEPT !.running_state = status],
                    next_scene |-> "Return(Bool(true))"]
              ELSE [god |-> GodLevel_next_test([self EXCEPT !.running_state = status]),
                    next_scene |-> "Continue"]
         ELSE [god |-> [self EXCEPT !.running_state = status], next_scene |-> "Continue"]
            : status \in {GodLevelStatus_step(self.running_state, dt, confirm)}}
        : TRUE

-----------------------------------------------------------------------------
(* SpecGod: one GodLevel built by GodLevel::new(tests) and driven by clicks
   on its control buttons, clicks on its board, step(dt, keyboard) and
   called_into.  god_log records, for the last event, its kind, the status
   before it, the status left by running_state.step (line 285) and the
   value step returned; and, for the run begun by the last Play pressed
   while Stopped, the tests started and the tests that reached Succeeded;
   dt is the time the last step was given and elapsed the time the steps of
   the running test were given since its last simulation tick or, before
   the first, since its start.  MaxTicks caps the simulation ticks of one
   test. *)

MaxTicks == 2

TestLists ==
    {<< >>,
     << Test_new(<< >>, TestTarget_Accept),
        Test_new(<<"Red">>, TestTarget_AcceptWith(<<"Red">>)) >>,
     << Test_new(<<"Blue">>, TestTarget_Reject),
        Test_new(<<"Red", "Blue">>, TestTarget_Accept) >>}

ControlButton == {"Play", "Pause", "Stop"}

\* the board clicks of the player: grid cell and palette value
BoardClicks ==
    {[index |-> <<4, 3>>, value |-> PaletteResult("Overlay", "Green", "Up")],
     [index |-> <<4, 3>>, value |-> PaletteResult("Overlay", "Red", "Up")],
     [index |-> <<4, 3>>, value |-> PaletteResult("Empty", "Red", "Up")],
     [index |-> <<3, 3>>, value |-> PaletteResult("Overlay", "Red", "Up")],
     [index |-> <<11, 10>>, value |-> PaletteResult("Overlay", "Green", "Up")],
     [index |-> <<10, 5>>, value |-> PaletteResult("Overlay", "Green", "Up")],
     [index |-> <<5, 3>>, value |-> PaletteResult("Overlay", "Orange", "Up")],
     [index |-> <<4, 4>>, value |-> PaletteResult("Overlay", "Orange", "Up")],
     [index |-> <<6, 3>>, value |-> PaletteResult("Overlay", "Blue", "Up")],
     [index |-> <<6, 3>>, value |-> PaletteResult("ColouredBlock", "Red", "Up")]}

StepTimes == {300, 500}

Ticked(before, after) ==
    /\ before.tag = "Playing" /\ after.tag = "Playing"
    /\ after.state.animation_time = 0

InitGod ==
    /\ \E tests \in TestLists : god = GodLevel_new(tests)
    /\ god_log = [kind |-> "new", confirm |-> FALSE, started |-> FALSE,
                  before |-> GodLevelStatus_new, mid |-> GodLevelStatus_new,
                  next_scene |-> "Continue",
                  run_started |-> << >>, run_passed |-> {}, ticks |-> 0,
                  dt |-> 0, elapsed |-> 0]
    /\ IdleLayer /\ IdleStack /\ IdleLevel /\ IdleCowLevel /\ IdleEngine /\ IdleOverworld

ClickControlButton ==
    /\ ~god.panicked
    /\ \E button \in ControlButton :
        \E after \in {GodLevel_control_button_press(god, button)} :
          LET starts == button = "Play" /\ GodLevelStatus_is_stopped(god.running_state)
          IN  /\ god' = after
              /\ god_log' = [god_log EXCEPT
                    !.kind = "click_button", !.confirm = FALSE,
                    !.started = starts /\ ~after.panicked,
                    !.before = god.running_state, !.mid = after.running_state,
                    !.next_scene = "Continue",
                    !.run_started = IF starts
                                    THEN IF after.panicked THEN << >> ELSE <<0>>
                                    ELSE @,
                    !.run_passed = IF starts THEN {} ELSE @,
                    !.ticks = IF starts THEN 0 ELSE @,
                    !.dt = 0,
                    !.elapsed = IF after.running_state.tag \in {"Playing", "Paused"} /\ ~starts
                                THEN @ ELSE 0]
    /\ UNCHANGED <<layer, layer_op, stack, stack_log, level, level_old, level_cmd, cow_level, cow_log, engine, overworld, overworld_log>>

ClickBoard ==
    /\ ~god.panicked
    /\ \E click \in BoardClicks :
          /\ god' = GodLevel_click_board(god, click.index, click.value).god
          /\ god_log' = [god_log EXCEPT
                !.kind = "click_board", !.confirm = FALSE, !.started = FALSE,
                !.before = god.running_state, !.mid = god.running_state,
                !.next_scene = "Continue", !.dt = 0]
    /\ UNCHANGED <<layer, layer_op, stack, stack_log, level, level_old, level_cmd, cow_level, cow_log, engine, overworld, overworld_log>>

Step ==
    /\ ~god.panicked
    /\ (god.running_state.tag = "Playing"
            /\ SuccessState_is_running(
                    LevelState_success_state(god.running_state.state.current_state)))
          => god_log.ticks < MaxTicks
    /\ \E dt \in StepTimes, confirm \in BOOLEAN :
        \E mid \in {GodLevelStatus_step(god.running_state, dt, confirm)},
           after \in {GodLevel_step(god, dt, confirm)} :
          LET starts == after.god.current_test # god.current_test
          IN  /\ god' = after.god
              /\ god_log' = [god_log EXCEPT
                    !.kind = "step", !.confirm = confirm, !.started = starts,
                    !.before = god.running_state, !.mid = mid,
                    !.next_scene = after.next_scene,
                    !.run_started = IF starts THEN Append(@, god.current_test) ELSE @,
                    !.run_passed = IF mid.tag = "Succeeded" /\ god.running_state.tag # "Succeeded"
                                   THEN @ \cup {god.current_test - 1}
                                   ELSE @,
                    !.ticks = IF starts THEN 0
                              ELSE IF Ticked(god.running_state, mid) THEN @ + 1 ELSE @,
                    !.dt = dt,
                    !.elapsed = CASE starts -> 0
                                  [] ~starts /\ god.running_state.tag = "Playing" ->
                                        IF Ticked(god.running_state, mid) THEN 0 ELSE @ + dt
                                  [] ~starts /\ god.running_state.tag = "Paused" -> @
                                  [] OTHER -> 0]
    /\ UNCHANGED <<layer, layer_op, stack, stack_log, level, level_old, level_cmd, cow_level, cow_log, engine, overworld, overworld_log>>

CalledInto ==
    /\ ~god.panicked
    /\ god' = GodLevel_called_into(god)
    /\ god_log' = [god_log EXCEPT
          !.kind = "called_into", !.confirm = FALSE, !.started = FALSE,
          !.before = god.running_state, !.mid = GodLevelStatus_Stopped,
          !.next_scene = "Continue", !.dt = 0, !.elapsed = 0]
    /\ UNCHANGED <<layer, layer_op, stack, stack_log, level, level_old, level_cmd, cow_level, cow_log, engine, overworld, overworld_log>>

NextGod == ClickControlButton \/ ClickBoard \/ Step \/ CalledInto

SpecGod == InitGod /\ [][NextGod]_vars

-----------------------------------------------------------------------------
(* Claims about the test harness, checked under SpecGod *)

InputCapacity(ls) ==
    Cardinality({point \in DOMAIN ls.board.overlay.layer :
                    ls.board.overlay.layer[point].tag = "Input"})

\* the tests of all the lists, and two more that no board of the model has room for
SomeTests ==
    UNION {{tests[k] : k \in 1 .. Len(tests)} : tests \in TestLists}
        \cup {Test_new(<<"Green">>, TestTarget_Reject),
              Test_new(<<"Green", "Red", "Blue">>, TestTarget_Reject)}

\* what start must leave for this test on this board
StartedAsClaimed(status, ls, test, speed) ==
    IF InputCapacity(ls) >= Len(test.input)
    THEN /\ status.tag = "Playing"
         /\ status.test = test
         /\ status.state.animation_time = speed
         /\ status.state.old_state = status.state.current_state
         /\ status.state.current_state.cows = ls.cows
         /\ status.state.current_state.animation_frame = ls.animation_frame
    ELSE /\ status.tag = "Report"
         /\ status.result.test = test
         /\ status.result.result.tag = "NotEnoughInputSpace"

\* C7: GodLevelStatus::start from Stopped leaves Playing iff the board has at
\* least as many Input overlay cells as the test has input colours, and
\* otherwise leaves Report(NotEnoughInputSpace) at once; it does not panic
\* and applies no tick (the actors and the frame are those of the initial
\* state, and the timer is the one new() sets).  Checked for start applied
\* to every reachable board, and for every start the harness made.
C7_StartFitsOrReports ==
    /\ \A test \in SomeTests :
          StartedAsClaimed(
              GodLevelStatus_start(GodLevelStatus_Stopped, god.initial_state, test, god.speed),
              god.initial_state, test, god.speed)
    /\ god_log.started =>
          /\ ~god.panicked
          /\ StartedAsClaimed(god.running_state, god.initial_state,
                              god.tests[god.current_test], god.speed)

\* the second test of a run was started on a board with one Input cell and
\* two input colours, and went straight to the report
C7_Witness ==
    /\ god_log.started
    /\ god_log.kind = "step"
    /\ god_log.before.tag = "Report"
    /\ InputCapacity(god.initial_state) = 1
    /\ Len(god.tests[god.current_test].input) = 2
    /\ god.running_state.tag = "Report"
    /\ god.running_state.result.result.tag = "NotEnoughInputSpace"

ColourLists == {<< >>, <<"Red">>, <<"Blue">>, <<"Red", "Blue">>}

Targets == {TestTarget_Reject, TestTarget_Accept} \cup {TestTarget_AcceptWith(v) : v \in ColourLists}

Results ==
    {TestResult_Reject, TestResult_NotEnoughInputSpace}
        \cup {TestResult_AcceptWith(w) : w \in ColourLists}

\* the table of the claim
PassedAsClaimed(target, result) ==
    \/ target.tag = "Reject" /\ result.tag = "Reject"
    \/ target.tag = "Accept" /\ result.tag = "AcceptWith"
    \/ /\ target.tag = "AcceptWith" /\ result.tag = "AcceptWith"
       /\ target.colours = result.colours

\* C8: when a run ends (a step takes Playing to Report) the verdict carries
\* the test of the run, Reject if the final state is Failed and
\* AcceptWith(the colours on the Output cells) if it is Succeeded; is_passed
\* is true exactly for (Reject, Reject), (Accept, AcceptWith(_)) and
\* (AcceptWith(v), AcceptWith(v)), and false for NotEnoughInputSpace.
C8_VerdictRule ==
    /\ \A target \in Targets, result \in Results, input \in {<< >>, <<"Red">>} :
          MetaTestResult_is_passed(MetaTestResult_new(Test_new(input, target), result))
              <=> PassedAsClaimed(target, result)
    /\ \A target \in Targets :
          ~MetaTestResult_is_passed(
              MetaTestResult_new(Test_new(<< >>, target), TestResult_NotEnoughInputSpace))
    /\ (god_log.kind = "step" /\ god_log.before.tag = "Playing" /\ god_log.mid.tag = "Report") =>
          LET final == god_log.before.state.current_state
              classes == {ClassOf(final, final.cows.cows[k]) : k \in 1 .. Len(final.cows.cows)}
              actual == god_log.mid.result.result
          IN  /\ god_log.mid.result.test = god_log.before.test
              /\ ("Failed" \in classes) => actual.tag = "Reject"
              /\ ("Failed" \notin classes) =>
                    /\ classes \subseteq {"Succeeded"}
                    /\ actual.tag = "AcceptWith"
                    /\ actual.colours = Board_get_outputs(final.board)
    /\ god.running_state.tag = "Report" =>
          god.running_state.result.result.tag \in {"Reject", "AcceptWith", "NotEnoughInputSpace"}

\* a run ended Succeeded with [Red] on the Output cell, as its test expects
C8_Witness ==
    /\ god_log.kind = "step"
    /\ god_log.before.tag = "Playing"
    /\ god_log.mid.tag = "Report"
    /\ god_log.mid.result.test.output.tag = "AcceptWith"
    /\ god_log.mid.result.result.tag = "AcceptWith"
    /\ god_log.mid.result.result.colours = <<"Red">>
    /\ MetaTestResult_is_passed(god_log.mid.result)

\* C9: with a non-empty test list, the tests started since Play was pressed
\* while Stopped are tests 0, 1, 2, ... in that order; the status always
\* carries the test started last; test k+1 is started only when test k
\* reached the Succeeded status in this run; and step returns
\* Return(Bool(true)) only when every test of the list has been started and
\* has reached Succeeded in this run.
C9_TestsInOrder ==
    Len(god.tests) > 0 =>
        /\ \A i \in 1 .. Len(god_log.run_started) : god_log.run_started[i] = i - 1
        /\ Len(god_log.run_started) <= Len(god.tests)
        /\ god.running_state.tag \in {"Playing", "Paused"} =>
              /\ god_log.run_started # << >>
              /\ god.running_state.test = god.tests[Len(god_log.run_started)]
        /\ god.running_state.tag = "Report" =>
              /\ god_log.run_started # << >>
              /\ god.running_state.result.test = god.tests[Len(god_log.run_started)]
        /\ \A i \in 2 .. Len(god_log.run_started) :
              (god_log.run_started[i] - 1) \in god_log.run_passed
        /\ god_log.run_passed \subseteq {god_log.run_started[i] : i \in 1 .. Len(god_log.run_started)}
        /\ (god_log.kind = "step" /\ god_log.next_scene = "Return(Bool(true))") =>
              /\ Len(god_log.run_started) = Len(god.tests)
              /\ god_log.run_passed = 0 .. (Len(god.tests) - 1)

\* a step returned Return(Bool(true)) at the end of a run of two tests
C9_Witness ==
    /\ Len(god.tests) = 2
    /\ god_log.kind = "step"
    /\ god_log.before.tag = "Report"
    /\ god_log.next_scene = "Return(Bool(true))"
    /\ god_log.run_started = <<0, 1>>
    /\ god_log.run_passed = {0, 1}

\* C10: a step in the Report status with Space or Enter pressed leaves
\* Succeeded if the verdict is passed and Stopped if it is not; without a
\* confirm key it leaves the status, verdict included, as it was, whatever
\* dt is.  Checked for the steps the harness took and for step applied to
\* every reachable report.
C10_ReportConfirm ==
    /\ (god_log.kind = "step" /\ god_log.before.tag = "Report") =>
          LET passed == PassedAsClaimed(god_log.before.result.test.output,
                                        god_log.before.result.result)
          IN  /\ (god_log.confirm /\ passed) => god_log.mid.tag = "Succeeded"
              /\ (god_log.confirm /\ ~passed) =>
                    /\ god_log.mid.tag = "Stopped"
                    /\ god.running_state.tag = "Stopped"
              /\ ~god_log.confirm =>
                    /\ god_log.mid = god_log.before
                    /\ god.running_state = god_log.before
                    /\ god_log.next_scene = "Continue"
    /\ god.running_state.tag = "Report" =>
          LET passed == PassedAsClaimed(god.running_state.result.test.output,
                                        god.running_state.result.result)
          IN  \A dt \in StepTimes \cup {0, 1, 100000} :
                 /\ GodLevelStatus_step(god.running_state, dt, FALSE) = god.running_state
                 /\ GodLevelStatus_step(god.running_state, dt, TRUE).tag
                        = IF passed THEN "Succeeded" ELSE "Stopped"

\* a passed report was confirmed: the status became Succeeded and the next
\* test was started
C10_Witness ==
    /\ god_log.kind = "step"
    /\ god_log.confirm
    /\ god_log.before.tag = "Report"
    /\ MetaTestResult_is_passed(god_log.before.result)
    /\ god_log.mid.tag = "Succeeded"
    /\ god_log.started
    /\ god.running_state.tag = "Playing"

-----------------------------------------------------------------------------
(* level/cow_level.rs: CowLevel is [states, animation_time, panicked];     *)
(* states is a StateStack of LevelState, animation_time is in              *)
(* milliseconds, and panicked records that a handler failed an assert! or  *)
(* an unwrap(). The palette only chooses the value a click writes, which   *)
(* the click handler receives here as an argument. A KeyboardState is      *)
(* [pressed, held], the key codes is_pressed and is_held answer true for.  *)

ANIMATION_TIME == 100
COOLDOWN_TIME == 50

CowLevel_from_state(state) ==
    [states |-> StateStack_new(state), animation_time |-> 0, panicked |-> FALSE]

CowLevel_purge_states(self) ==
    [self EXCEPT !.states = StateStack_purge_states(self.states)]

CowLevel_is_finished_animating(self) ==
    self.animation_time > ANIMATION_TIME + COOLDOWN_TIME

KeyboardState_is_pressed(keyboard, code) == code \in keyboard.pressed
KeyboardState_is_held(keyboard, code) == code \in keyboard.held

CowLevel_keyboard_event(self, keyboard, code) ==
    IF CowLevel_is_finished_animating(self)
    THEN KeyboardState_is_held(keyboard, code)
    ELSE KeyboardState_is_pressed(keyboard, code)

\* [some, command]
CowLevel_get_keyboard_command(self, keyboard) ==
    IF CowLevel_keyboard_event(self, keyboard, "ArrowUp")
    THEN [some |-> TRUE, command |-> Command_Walk("Up")]
    ELSE IF CowLevel_keyboard_event(self, keyboard, "ArrowRight")
    THEN [some |-> TRUE, command |-> Command_Walk("Right")]
    ELSE IF CowLevel_keyboard_event(self, keyboard, "ArrowDown")
    THEN [some |-> TRUE, command |-> Command_Walk("Down")]
    ELSE IF CowLevel_keyboard_event(self, keyboard, "ArrowLeft")
    THEN [some |-> TRUE, command |-> Command_Walk("Left")]
    ELSE IF CowLevel_keyboard_event(self, keyboard, "Space")
    THEN [some |-> TRUE, command |-> Command_Halt]
    ELSE [some |-> FALSE, command |-> Command_Halt]

\* the unwrap() of current_state and current_state_mut fails
StateStack_current_state_fails(s) ==
    s.time_direction = "Backward" /\ s.state_stack = <<>>

\* *current_state_mut() = state
StateStack_current_state_mut(s, state) ==
    IF s.time_direction = "Forward"
    THEN [s EXCEPT !.stack_top = state]
    ELSE [s EXCEPT !.state_stack[Len(s.state_stack)] = state]

\* a mutant of CowLevel_commit: the command is applied to the current state
\* in place, and the state pushed is a clone taken after it
CowLevel_commit_in_place(states, command) ==
    CHOOSE pushed \in
        {StateStack_push_state(StateStack_current_state_mut(states, state), state) :
            state \in {LevelState_command(StateStack_current_state(states), command)}} : TRUE

\* step, lines 126-131: clone the current state, command the clone, push it
CowLevel_commit(states, command) ==
    StateStack_push_state(states,
        LevelState_command(StateStack_current_state(states), command))

\* the part of step after the undo key: [cow_level, next_scene]
CowLevel_step_play(self, keyboard) ==
    IF StateStack_current_state_fails(self.states)
    THEN [cow_level |-> [self EXCEPT !.panicked = TRUE], next_scene |-> "Panic"]
    ELSE
    CHOOSE result \in
      {(CASE success = "Succeeded" ->
                [cow_level |-> self,
                 next_scene |-> IF ~CowLevel_is_finished_animating(self)
                                THEN "Continue" ELSE "Return(Bool(true))"]
         [] success = "Failed" ->
                IF CowLevel_is_finished_animating(self)
                THEN [cow_level |-> self, next_scene |-> "Continue"]
                ELSE [cow_level |-> [self EXCEPT !.panicked = TRUE], next_scene |-> "Panic"]
         [] success = "Running" ->
                LET command == CowLevel_get_keyboard_command(self, keyboard)
                IN  IF command.some
                    THEN CHOOSE committed \in
                           {[cow_level |-> [self EXCEPT !.states = states,
                                                        !.animation_time = 0,
                                                        !.panicked = states.panicked],
                             next_scene |-> IF states.panicked THEN "Panic" ELSE "Continue"] :
                              states \in {CowLevel_commit(self.states, command.command)}} : TRUE
                    ELSE [cow_level |-> self, next_scene |-> "Continue"])
       : success \in {LevelState_success_state(StateStack_current_state(self.states))}} : TRUE

\* [cow_level, next_scene]; next_scene is "Continue", "Return(Bool(true))",
\* or "Panic" where the handler did not return
CowLevel_step(self, dt, keyboard) ==
    LET timed == [self EXCEPT !.animation_time = @ + dt]
        purged == IF CowLevel_keyboard_event(timed, keyboard, "KeyR")
                  THEN CowLevel_purge_states(timed) ELSE timed
    IN  IF CowLevel_keyboard_event(purged, keyboard, "KeyU")
        THEN CHOOSE undone \in
               {[cow_level |-> [purged EXCEPT !.states = states,
                                              !.animation_time = 0,
                                              !.panicked = states.panicked],
                 next_scene |-> IF states.panicked THEN "Panic" ELSE "Continue"] :
                  states \in {StateStack_pop_state(purged.states)}} : TRUE
        ELSE CowLevel_step_play(purged, keyboard)

\* where is "outside" the bounding rectangle, on the "palette", or on the
\* "board" at grid cell index, value being palette.value(): [cow_level, handled]
CowLevel_click(self, where, index, value) ==
    CASE where = "outside" -> [cow_level |-> self, handled |-> FALSE]
      [] where = "palette" -> [cow_level |-> self, handled |-> TRUE]
      [] where = "board" ->
            IF StateStack_current_state_fails(self.states)
            THEN [cow_level |-> [self EXCEPT !.panicked = TRUE], handled |-> FALSE]
            ELSE [cow_level |->
                    [self EXCEPT !.states = StateStack_current_state_mut(self.states,
                        LevelState_set_cell_at_point(
                            StateStack_current_state(self.states), index, value))],
                  handled |-> TRUE]

CowLevel_called_into(self) == CowLevel_purge_states(self)

-----------------------------------------------------------------------------
(* SpecCowLevel: one CowLevel made by from_state from an arena level, then *)
(* driven by step (a frame time and a keyboard), click and called_into.    *)
(* cow_log records what the last handler did: kind is "new", "command",    *)
(* "undo", "idle", "panic", "click" or "called_into"; purged tells that    *)
(* step took the KeyR branch first; base is the StateStack the handler     *)
(* found, after that purge, prev the kind of the handler before this one,  *)
(* at_command the state that was current when the last command was         *)
(* committed.                                                              *)

MaxHistory == 2
MaxAnimationTime == 200

CowHerds ==
    {<< Cow_new(<<2, 1>>, "Right", <<>>) >>,
     << Cow_new(<<2, 1>>, "Right", <<1>>),
        Cow_new(<<2, 2>>, "Right", <<>>) >>}

CowGroundChoices == {GroundCell_Empty, GroundCell_ArrowBlock("Down")}

CowStepTimes == {100, 200}

CowKeys == {"KeyR", "KeyU", "ArrowRight", "ArrowDown", "Space"}

Keyboards ==
    {[pressed |-> {}, held |-> {}], [pressed |-> {"KeyR", "KeyU"}, held |-> {"KeyR", "KeyU"}]}
        \cup {[pressed |-> {k}, held |-> {k}] : k \in CowKeys}
        \cup {[pressed |-> {}, held |-> {k}] : k \in CowKeys}

CowClicks ==
    {[where |-> "outside", index |-> <<2, 1>>, value |-> PaletteResult("Empty", "Red", "Up")],
     [where |-> "palette", index |-> <<2, 1>>, value |-> PaletteResult("Empty", "Red", "Up")],
     [where |-> "board", index |-> <<2, 2>>, value |-> PaletteResult("Overlay", "Green", "Up")]}

InitCowLevel ==
    /\ \E cell_a \in CowGroundChoices, cow_data \in CowHerds :
          cow_level = CowLevel_from_state(
                          [board |-> Board_set_ground_cell(ArenaBoard, <<2, 2>>, cell_a),
                           cows |-> Cows_new(0, cow_data),
                           animation_frame |-> INITIAL_ANIMATION_FRAME])
    /\ cow_log = [kind |-> "new", purged |-> FALSE,
                  base |-> cow_level.states, prev |-> "new",
                  at_command |-> cow_level.states.stack_top,
                  next_scene |-> "Continue"]
    /\ IdleLayer /\ IdleStack /\ IdleLevel /\ IdleGod /\ IdleEngine /\ IdleOverworld

CowLive == ~cow_level.panicked /\ cow_log.next_scene = "Continue"

\* what step does with this frame time and keyboard
StepKind(self, dt, keyboard, after) ==
    LET timed == [self EXCEPT !.animation_time = @ + dt]
    IN  IF after.next_scene = "Panic" THEN "panic"
        ELSE IF CowLevel_keyboard_event(timed, keyboard, "KeyU") THEN "undo"
        ELSE IF after.cow_level.animation_time = 0 THEN "command"
        ELSE "idle"

CowStep ==
    /\ CowLive
    /\ \E dt \in CowStepTimes, keyboard \in Keyboards :
        \E after \in {CowLevel_step(cow_level, dt, keyboard)} :
        \E kind \in {StepKind(cow_level, dt, keyboard, after)} :
          LET purged == CowLevel_keyboard_event(
                            [cow_level EXCEPT !.animation_time = @ + dt], keyboard, "KeyR")
              base == IF purged THEN StateStack_purge_states(cow_level.states)
                      ELSE cow_level.states
          IN  /\ cow_level.animation_time + dt <= MaxAnimationTime
              /\ Len(after.cow_level.states.state_stack) <= MaxHistory
              /\ cow_level' = after.cow_level
              /\ cow_log' = [cow_log EXCEPT
                    !.kind = kind, !.purged = purged,
                    !.base = base, !.prev = cow_log.kind,
                    !.at_command = IF kind = "command"
                                   THEN StateStack_current_state(base) ELSE @,
                    !.next_scene = after.next_scene]
    /\ UNCHANGED <<layer, layer_op, stack, stack_log, level, level_old, level_cmd, god, god_log, engine, overworld, overworld_log>>

CowClick ==
    /\ CowLive
    /\ \E click \in CowClicks :
        \E after \in {CowLevel_click(cow_level, click.where, click.index, click.value)} :
          /\ cow_level' = after.cow_level
          /\ cow_log' = [cow_log EXCEPT
                !.kind = IF after.cow_level.panicked THEN "panic" ELSE "click",
                !.purged = FALSE, !.base = cow_level.states, !.prev = cow_log.kind,
                !.next_scene = IF after.cow_level.panicked THEN "Panic" ELSE "Continue"]
    /\ UNCHANGED <<layer, layer_op, stack, stack_log, level, level_old, level_cmd, god, god_log, engine, overworld, overworld_log>>

CowCalledInto ==
    /\ CowLive
    /\ cow_level' = CowLevel_called_into(cow_level)
    /\ cow_log' = [cow_log EXCEPT
          !.kind = "called_into", !.purged = TRUE,
          !.base = cow_level.states, !.prev = cow_log.kind]
    /\ UNCHANGED <<layer, layer_op, stack, stack_log, level, level_old, level_cmd, god, god_log, engine, overworld, overworld_log>>

NextCowLevel == CowStep \/ CowClick \/ CowCalledInto

SpecCowLevel == InitCowLevel /\ [][NextCowLevel]_vars

-----------------------------------------------------------------------------
(* Claims on SpecCowLevel *)

\* two LevelStates agree in both board layers and in every cow's position
\* and direction
SameBoardAndCows(a, b) ==
    /\ a.board.ground = b.board.ground
    /\ a.board.overlay = b.board.overlay
    /\ Len(a.cows.cows) = Len(b.cows.cows)
    /\ \A i \in 1 .. Len(a.cows.cows) :
          /\ a.cows.cows[i].position = b.cows.cows[i].position
          /\ a.cows.cows[i].direction = b.cows.cows[i].direction

\* C11: a step of CowLevel that commits a command leaves every state the
\* stack already held as it was: the older states are the ones held before
\* (with the state that was current added when time ran Forward), and
\* pop_state on the result makes current_state() the state that was current
\* before the command. A step that undoes right after a step that committed
\* a command makes current_state() agree with the state that was current
\* before that command in both board layers and in every cow's position and
\* direction.
C11_CommitKeepsHistory ==
    /\ cow_log.kind = "command" =>
          LET base == cow_log.base
              popped == StateStack_pop_state(cow_level.states)
          IN  /\ cow_level.states.state_stack =
                    IF base.time_direction = "Forward"
                    THEN Append(base.state_stack, base.stack_top)
                    ELSE base.state_stack
              /\ ~popped.panicked
              /\ StateStack_current_state(popped) = StateStack_current_state(base)
              /\ cow_log.at_command = StateStack_current_state(base)
    /\ (cow_log.kind = "undo" /\ cow_log.prev = "command" /\ ~cow_log.purged) =>
          SameBoardAndCows(StateStack_current_state(cow_level.states), cow_log.at_command)

\* a command that moved a cow was committed and the next step undid it
C11_Witness ==
    /\ cow_log.kind = "undo"
    /\ cow_log.prev = "command"
    /\ ~cow_log.purged
    /\ \E i \in 1 .. Len(cow_log.at_command.cows.cows) :
          StateStack_current_state(cow_log.base).cows.cows[i].position
              # cow_log.at_command.cows.cows[i].position
    /\ StateStack_current_state(cow_level.states) = cow_log.at_command
-----------------------------------------------------------------------------
(* Further claims on SpecLevel *)

\* the step a direction stands for, and the cell one step from a point
DirectionStep(d) ==
    CASE d = "Up" -> <<0, -1>> [] d = "Right" -> <<1, 0>>
      [] d = "Down" -> <<0, 1>> [] d = "Left" -> <<-1, 0>>

StepFrom(p, d, n) == <<p[1] + n * DirectionStep(d)[1], p[2] + n * DirectionStep(d)[2]>>

Solid(board, p) == Board_get_ground_cell(board, p).tag \in {"Fence", "Wall"}

Reversed(d) ==
    CASE d = "Up" -> "Down" [] d = "Down" -> "Up" [] d = "Left" -> "Right" [] d = "Right" -> "Left"

\* C12: on every board a level reaches, for every cow of the level turned to
\* any direction d, walk_bounce moves the cow one step along d when the cell
\* there is not solid; else it reverses the direction and moves one step
\* along the reversed direction when the cell there is not solid; else it
\* leaves the position and reverses the direction once. The cow moves at
\* most one cell, ends facing d or its reverse, and keeps its children.
C12_WalkBounce ==
    \A i \in 1 .. Len(level.cows.cows), d \in Direction :
        LET cow == [level.cows.cows[i] EXCEPT !.direction = d]
            after == Cow_walk_bounce(cow, level.board)
            ahead == StepFrom(cow.position, d, 1)
            behind == StepFrom(cow.position, d, -1)
            dx == after.position[1] - cow.position[1]
            dy == after.position[2] - cow.position[2]
        IN  /\ ~Solid(level.board, ahead) =>
                    after.position = ahead /\ after.direction = d
            /\ (Solid(level.board, ahead) /\ ~Solid(level.board, behind)) =>
                    after.position = behind /\ after.direction = Reversed(d)
            /\ (Solid(level.board, ahead) /\ Solid(level.board, behind)) =>
                    after.position = cow.position /\ after.direction = Reversed(d)
            /\ dx * dx + dy * dy <= 1
            /\ after.direction \in {d, Reversed(d)}
            /\ after.children = cow.children

\* an Auto tick made the player, standing between two solid cells on a cell
\* that bounces, turn round on the spot
C12_Witness ==
    /\ level_cmd = Command_Auto
    /\ LET old == Cows_get_cow(level_old.cows, level_old.cows.player)
           new == Cows_get_cow(level.cows, level.cows.player)
       IN  /\ Cow_get_cell(old, level_old.board) = GroundCell_Empty
           /\ Solid(level_old.board, StepFrom(old.position, old.direction, 1))
           /\ Solid(level_old.board, StepFrom(old.position, old.direction, -1))
           /\ new.position = old.position
           /\ new.direction = Reversed(old.direction)
           /\ new = Cow_walk_bounce(old, level_old.board)
(* The tick spelt out by index: ReplayCow commands the children of cow i   *)
(* one after the other by their place k in its children vector, each with  *)
(* the command the ground under cow i stands for, then cow i itself;       *)
(* ReplayTick commands the player and then, by ascending index, every cow  *)
(* that is neither the player nor a child of any cow.                      *)

RECURSIVE ReplayCow(_, _, _)
RECURSIVE ReplayChildren(_, _, _, _)

ReplayChildren(st, i, k, command) ==
    IF k > Len(st.cows.cows[i + 1].children) THEN st
    ELSE ReplayChildren(ReplayCow(st, st.cows.cows[i + 1].children[k], command),
                        i, k + 1, command)

ReplayCow(st, i, command) ==
    Cows_command_own(
        ReplayChildren(st, i, 1,
            Cows_child_command(Board_get_ground_cell(st.board, st.cows.cows[i + 1].position))),
        i, command)

IsRoot(cows, i) ==
    /\ i # cows.player
    /\ \A k \in 1 .. Len(cows.cows) : \A j \in 1 .. Len(cows.cows[k].children) :
          cows.cows[k].children[j] # i

RECURSIVE ReplayRoots(_, _, _)
ReplayRoots(st, roots, i) ==
    IF i >= Len(st.cows.cows) THEN st
    ELSE ReplayRoots(IF i \in roots THEN ReplayCow(st, i, Command_Auto) ELSE st, roots, i + 1)

ReplayTick(ls, command) ==
    LET roots == {i \in 0 .. (Len(ls.cows.cows) - 1) : IsRoot(ls.cows, i)}
        st == ReplayRoots(ReplayCow([cows |-> ls.cows, board |-> ls.board],
                                    ls.cows.player, command), roots, 0)
    IN  [board |-> st.board, cows |-> st.cows,
         animation_frame |-> (ls.animation_frame + 1) % TOTAL_ANIMATION_FRAMES]

\* a harness run over the current level, at time 0 or at its speed, stepped
\* by dt: the time grows by dt, and once it is not below the speed and the
\* level is running the time is set to 0 and the one tick is applied
HarnessReplay ==
    \A time \in {0, MIN_SPEED}, dt \in StepTimes :
        LET run == [GodLevelRunningState_new(level, MIN_SPEED) EXCEPT !.animation_time = time]
            ticks == time + dt >= MIN_SPEED
                        /\ LevelState_success_state(level) = "Running"
        IN  GodLevelRunningState_step(run, dt) =
                [current_state |-> IF ticks THEN ReplayTick(level, Command_Auto) ELSE level,
                 old_state |-> level,
                 animation_time |-> IF ticks THEN 0 ELSE time + dt,
                 speed |-> MIN_SPEED]

-----------------------------------------------------------------------------
(* Further claims on SpecLayer *)

\* C14, as claimed: no set_cell or map_cell call panics or overflows, at
\* whatever i32 coordinate it is made.
C14_NoOverflow ==
    layer_op.op \in {"set_cell", "map_cell"} =>
        ~layer_op.overflow /\ ~layer_op.panicked
-----------------------------------------------------------------------------
(* Further claims on SpecLevel: SuccessState *)

\* the fold of combine from Succeeded over a sequence of classifications
RECURSIVE FoldCombine(_, _)
FoldCombine(acc, classes) ==
    IF classes = <<>> THEN acc
    ELSE FoldCombine(SuccessState_combine(acc, Head(classes)), Tail(classes))

\* C15: combine is associative and commutative on {Failed, Running,
\* Succeeded}, Succeeded is its identity and Failed absorbs; and for the herd
\* of every reachable level, folding the classifications of its actors in
\* any order gives what success_state gives.
C15_CombineAlgebra ==
    /\ \A a \in SuccessState, b \in SuccessState, c \in SuccessState :
          /\ SuccessState_combine(a, b) \in SuccessState
          /\ SuccessState_combine(SuccessState_combine(a, b), c)
                = SuccessState_combine(a, SuccessState_combine(b, c))
          /\ SuccessState_combine(a, b) = SuccessState_combine(b, a)
          /\ SuccessState_combine("Succeeded", a) = a
          /\ SuccessState_combine(a, "Succeeded") = a
          /\ SuccessState_combine("Failed", a) = "Failed"
          /\ SuccessState_combine(a, "Failed") = "Failed"
    /\ \A sel \in Selections(Len(level.cows.cows)) :
          Len(sel) = Len(level.cows.cows) =>
              FoldCombine("Succeeded",
                          [k \in 1 .. Len(sel) |-> ClassOf(level, level.cows.cows[sel[k]])])
                  = LevelState_success_state(level)

\* after a tick an actor on a Failure cell comes later in the herd than one
\* on a Success cell and one that is running, and the level is Failed
C15_Witness ==
    /\ level_cmd \in PlayerCommands
    /\ \E i, j, k \in 1 .. Len(level.cows.cows) :
          /\ i < k /\ j < k
          /\ ClassOf(level, level.cows.cows[i]) = "Succeeded"
          /\ ClassOf(level, level.cows.cows[j]) = "Running"
          /\ ClassOf(level, level.cows.cows[k]) = "Failed"
    /\ LevelState_success_state(level) = "Failed"
-----------------------------------------------------------------------------
(* Further claims on SpecStack *)

\* C16: after new and any sequence of push_state, pop_state and
\* purge_states calls, the older states are not empty whenever the direction
\* is Backward; so no call has failed, and the assert! of push_state and the
\* unwrap() of pop_state, current_state and current_state_mut succeed in
\* the state reached.
C16_BackwardHasHistory ==
    /\ stack.time_direction = "Backward" => stack.state_stack # <<>>
    /\ ~stack.panicked
    /\ ~StateStack_push_state(stack, 0).panicked
    /\ ~StateStack_pop_state(stack).panicked
    /\ ~StateStack_current_state_fails(stack)

\* a pop_state in the Backward direction took the last older state
C16_Witness ==
    /\ stack_log.op = "pop_state"
    /\ stack_log.before.time_direction = "Backward"
    /\ Len(stack_log.before.state_stack) = 1
    /\ stack.state_stack = <<>>
    /\ stack.time_direction = "Forward"
    /\ stack.stack_top = Last(stack_log.before.state_stack)

\* the oldest state a stack stores
StateStack_oldest(s) == IF s.state_stack # <<>> THEN s.state_stack[1] ELSE s.stack_top

\* C17: purge_states, in either direction and after any calls, leaves no
\* older states and the direction Forward, and current_state() is then the
\* oldest state the stack stored before the call, which is the state given
\* to new (0 here); with no older states the current state is unchanged.
C17_PurgeKeepsOldest ==
    /\ stack_log.op = "purge_states" =>
          /\ stack.state_stack = <<>>
          /\ stack.time_direction = "Forward"
          /\ ~stack.panicked
          /\ StateStack_current_state(stack) = StateStack_oldest(stack_log.before)
          /\ StateStack_current_state(stack) = 0
          /\ stack_log.before.state_stack = <<>> =>
                StateStack_current_state(stack) = StateStack_current_state(stack_log.before)
    /\ StateStack_oldest(stack) = 0

\* purge_states was called in the Backward direction on a stack with two
\* older states, whose current state was not the oldest
C17_Witness ==
    /\ stack_log.op = "purge_states"
    /\ stack_log.before.time_direction = "Backward"
    /\ Len(stack_log.before.state_stack) = 2
    /\ StateStack_current_state(stack_log.before) # 0
    /\ StateStack_current_state(stack) = 0
-----------------------------------------------------------------------------
(* Further claims on SpecLevel: the coloured arrow *)

\* the player of the level before the tick stood on a coloured arrow with a
\* child (number k of its children) on a coloured block of the arrow's colour
PlayerFollowsArrow(k) ==
    LET player == Cows_get_cow(level_old.cows, level_old.cows.player)
        arrow == Cow_get_cell(player, level_old.board)
    IN  /\ level_cmd = Command_Auto
        /\ arrow.tag = "ColouredArrow"
        /\ k \in 1 .. Len(player.children)
        /\ Cow_get_cell(Cows_get_cow(level_old.cows, player.children[k]), level_old.board)
              = GroundCell_ColouredBlock(arrow.colour)

\* C18, as claimed: when the player, commanded Auto on a coloured arrow,
\* follows the arrow because a child of its stands on a coloured block of
\* the arrow's colour, the cell under that child is no longer a coloured
\* block after the tick.
C18_BlockConsumed ==
    \A k \in 1 .. 4 :
        PlayerFollowsArrow(k) =>
            LET player == Cows_get_cow(level_old.cows, level_old.cows.player)
                child == Cows_get_cow(level.cows, player.children[k])
            IN  /\ Cows_get_cow(level.cows, level.cows.player).direction
                      = Cow_get_cell(player, level_old.board).direction
                /\ Cow_get_cell(child, level.board).tag # "ColouredBlock"
-----------------------------------------------------------------------------
(* Further claims on SpecGod *)

\* the Input overlay cells of a board, and the number of them that come
\* before p in raster order: rows top to bottom, left to right in a row
InputCells(board) ==
    {p \in DOMAIN board.overlay.layer : board.overlay.layer[p].tag = "Input"}

RasterRank(board, p) ==
    Cardinality({q \in InputCells(board) : q[2] < p[2] \/ (q[2] = p[2] /\ q[1] < p[1])})

\* after is board with input written onto its Input cells in raster order
InputsWritten(board, input, after) ==
    /\ after.overlay = board.overlay
    /\ \A p \in InputCells(board) :
          Board_get_ground_cell(after, p) =
              IF RasterRank(board, p) < Len(input)
              THEN GroundCell_ColouredBlock(input[RasterRank(board, p) + 1])
              ELSE GroundCell_Empty
    /\ Board_get_inputs(after) = input

\* C19: on every board the editor reaches and for every input of the tests,
\* set_inputs succeeds iff the Input cells are at least as many as the
\* colours; when it succeeds the i-th colour is a ColouredBlock on the i-th
\* Input cell in raster order, every remaining Input cell has ground Empty,
\* and get_inputs() returns exactly the input; when it fails the board is
\* unchanged. The board of every run the harness starts is written so.
C19_SetInputsRaster ==
    /\ \A test \in SomeTests :
          LET board == god.initial_state.board
              r == Board_set_inputs(board, test.input)
          IN  /\ r.ok <=> Cardinality(InputCells(board)) >= Len(test.input)
              /\ r.ok => InputsWritten(board, test.input, r.board)
              /\ ~r.ok => r.board = board
    /\ (god_log.started /\ god.running_state.tag = "Playing") =>
          InputsWritten(god.initial_state.board, god.running_state.test.input,
                        god.running_state.state.current_state.board)

\* a run was started with the input Red, Blue on a board whose two Input
\* cells are (5, 3) and (4, 4): Red went to (5, 3), the first in raster order
\* though not the leftmost
C19_Witness ==
    /\ god_log.started
    /\ god.running_state.tag = "Playing"
    /\ god.running_state.test.input = <<"Red", "Blue">>
    /\ InputCells(god.initial_state.board) = {<<5, 3>>, <<4, 4>>}
    /\ Board_get_ground_cell(god.running_state.state.current_state.board, <<5, 3>>)
          = GroundCell_ColouredBlock("Red")
    /\ Board_get_ground_cell(god.running_state.state.current_state.board, <<4, 4>>)
          = GroundCell_ColouredBlock("Blue")

\* C20: for every status the harness reaches, pause turns Playing into
\* Paused with the same test and running state and leaves Stopped, Paused,
\* Report and Succeeded as they are; play turns Paused into Playing with the
\* same test and running state, leaves Playing, Report and Succeeded as they
\* are, and panics on Stopped; start panics on every status but Stopped. A
\* click on Pause or Play does to the status what the table says.
C20_PausePlayTable ==
    LET status == god.running_state
        paused == GodLevelStatus_pause(status)
        played == GodLevelStatus_play(status)
    IN  /\ ~god.panicked => status.tag \in {"Stopped", "Paused", "Playing", "Report", "Succeeded"}
        /\ status.tag = "Playing" =>
              /\ paused.tag = "Paused"
              /\ paused.test = status.test /\ paused.state = status.state
              /\ played = status
        /\ status.tag = "Paused" =>
              /\ played.tag = "Playing"
              /\ played.test = status.test /\ played.state = status.state
              /\ paused = status
        /\ status.tag \in {"Report", "Succeeded"} => paused = status /\ played = status
        /\ status.tag = "Stopped" => paused = status /\ played.tag = "Panic"
        /\ status.tag \in {"Paused", "Playing", "Report", "Succeeded"} =>
              \A test \in SomeTests :
                  GodLevelStatus_start(status, god.initial_state, test, god.speed).tag = "Panic"
        /\ (god_log.kind = "click_button" /\ god_log.before.tag = "Playing") =>
              god.running_state.tag \in {"Playing", "Paused", "Stopped"}
        /\ (god_log.kind = "click_button" /\ god_log.before.tag \in {"Playing", "Paused"}
               /\ god.running_state.tag \in {"Playing", "Paused"}) =>
              /\ god.running_state.test = god_log.before.test
              /\ god.running_state.state = god_log.before.state

\* Pause was clicked on a run that had ticked, and the status is Paused with
\* the run as it was
C20_Witness ==
    /\ god_log.kind = "click_button"
    /\ god_log.before.tag = "Playing"
    /\ god_log.ticks > 0
    /\ god.running_state.tag = "Paused"
    /\ god.running_state.state = god_log.before.state
    /\ GodLevelStatus_play(god.running_state) = god_log.before
-----------------------------------------------------------------------------
(* Further claims on SpecLayer: the mask a write stores *)

\* the mask whose bit d is set iff the neighbour of p in direction d has
\* this tag in layer l
MaskFromTags(l, p, tag) ==
    LET bit(d) == IF LevelLayer_get_cell(l, Point_increment_2d(p, d)).tag = tag
                  THEN 2 ^ Direction_as_u8(d) ELSE 0
    IN  bit("Up") + bit("Right") + bit("Down") + bit("Left")

\* C21: set_cell(p, v), on every layer reached and for every point and cell
\* of the model, leaves at p a cell with v's variant and payload whose mask,
\* when the variant carries one, has bit d set iff the neighbour in direction
\* d has v's tag; the result is the one the same cell entered with an empty
\* mask gives, whatever mask v carried, and the neighbours keep their tags. The write a call made is of that form.
C21_MaskRecomputed ==
    /\ \A p \in LayerPoints, v \in LayerInputs :
          LET after == LevelLayer_set_cell(layer, p, v)
              stored == LevelLayer_get_cell(after, p)
          IN  /\ stored.tag = v.tag
              /\ stored.colour = v.colour
              /\ stored.direction = v.direction
              /\ stored.surround = IF HasMask(v) THEN MaskFromTags(layer, p, v.tag) ELSE 0
              /\ HasMask(v) => LevelLayer_set_cell(layer, p, [v EXCEPT !.surround = 0]) = after
              /\ \A d \in Direction :
                    LevelLayer_get_cell(after, Point_increment_2d(p, d)).tag
                        = LevelLayer_get_cell(layer, Point_increment_2d(p, d)).tag
    /\ (layer_op.op = "set_cell" /\ ~layer_op.panicked) =>
          LET stored == LevelLayer_get_cell(layer, layer_op.point)
          IN  /\ stored.tag = layer_op.cell.tag
              /\ stored.surround =
                    IF HasMask(stored)
                    THEN MaskFromTags(layer, layer_op.point, stored.tag)
                    ELSE 0

\* a cell entered with every mask bit set was written between a cell of its
\* own variant and a cell of another variant that carries a mask: it points
\* at the first only
C21_Witness ==
    /\ layer_op.op = "set_cell" /\ layer_op.point = <<0, 0>>
    /\ layer_op.cell.surround = 15
    /\ HasMask(layer_op.cell)
    /\ LevelLayer_get_cell(layer, <<0, 1>>).tag = layer_op.cell.tag
    /\ HasMask(LevelLayer_get_cell(layer, <<1, 0>>))
    /\ LevelLayer_get_cell(layer, <<1, 0>>).tag # layer_op.cell.tag
    /\ LevelLayer_get_cell(layer, <<0, 0>>).surround = 2 ^ Direction_as_u8("Down")

-----------------------------------------------------------------------------
(* Further claims on SpecLevel: the commands a tick hands out *)

\* the threaded state of a level with an empty record of the commands given
LevelStLogged(ls) == [cows |-> ls.cows, board |-> ls.board, log |-> <<>>]

\* the commands the record holds for the cows of a set
CommandsGivenTo(log, cow_set) ==
    {log[k] : k \in {j \in 1 .. Len(log) : log[j].cow_index \in cow_set}}

ChildrenOf(ls, cow_index) ==
    {ls.cows.cows[cow_index + 1].children[k] : k \in 1 .. Len(ls.cows.cows[cow_index + 1].children)}

\* commands a parent is given itself: cell-driven, none, a walk, a write
ParentCommands ==
    {Command_Auto, Command_Halt, Command_Walk("Left"), Command_PlaceBlock("Blue")}

\* the table of the commands a cow on a ground cell gives its children
ChildCommandTable(cell) ==
    CASE cell.tag = "Empty" -> Command_Halt
      [] cell.tag = "ColouredBlock" -> Command_PlaceBlock(cell.colour)
      [] cell.tag = "Arrow" -> Command_Halt
      [] cell.tag = "ArrowBlock" -> Command_Walk(cell.direction)
      [] cell.tag = "ColouredArrow" -> Command_Halt
      [] cell.tag = "RotateRight" -> Command_RotateRight
      [] cell.tag = "RotateLeft" -> Command_RotateLeft
      [] cell.tag = "Fence" -> Command_Halt
      [] cell.tag = "Wall" -> Command_Halt

\* C22: the command a cow passes to its children is a function of the ground
\* cell under the cow alone: Empty, Arrow, ColouredArrow, Fence and Wall give
\* Halt, ColouredBlock(c) gives PlaceBlock(c), ArrowBlock(d) gives Walk(d), the
\* rotate markers give their rotation.  Whatever command the cow itself is
\* given, each of its children is commanded once, with that command; a cow
\* standing in a fence or wall gives Halt like any other.
C22_ChildCommandTable ==
    \A P \in CowIndices :
        LET cell == Cow_get_cell(Cows_get_cow(level.cows, P), level.board)
            kids == ChildrenOf(level, P)
        IN  \A command \in ParentCommands :
              \A post \in {Cows_command(LevelStLogged(level), P, command)} :
                LET given == CommandsGivenTo(post.log, kids)
                IN  /\ given = {[cow_index |-> child, command |-> ChildCommandTable(cell)]
                                    : child \in kids}
                    /\ Cardinality({k \in 1 .. Len(post.log) : post.log[k].cow_index \in kids})
                          = Cardinality(kids)

\* after a tick with a walk command the player of the chain herd, which stood
\* on ArrowBlock(Down), has turned its child Down while it walked itself
C22_Witness ==
    /\ level_cmd \in {Command_Walk(d) : d \in Direction}
    /\ Cow_get_cell(Cows_get_cow(level_old.cows, 0), level_old.board) = GroundCell_ArrowBlock("Down")
    /\ ChildrenOf(level_old, 0) = {1}
    /\ CommandsGivenTo(Cows_command_player(LevelStLogged(level_old), level_cmd).log, {1})
          = {[cow_index |-> 1, command |-> Command_Walk("Down")]}
    /\ Cows_get_cow(level.cows, 1).direction = "Down"
    /\ Cows_get_cow(level.cows, 0).direction = level_cmd.direction

\* C23: given Auto, a cow moves by the ground cell under it once its children
\* have acted: on Arrow(d) it walks d or stops, on ColouredArrow(c, d) it
\* walks d or stops if one of its own children then stands on
\* ColouredBlock(c) and bounces otherwise (so always without children), and
\* on every other cell it bounces.  Nothing else changes in that move.
C23_AutoTable ==
    \A P \in CowIndices :
      \A mid \in {Cows_update_children(LevelSt(level), P)} :
      \A post \in {Cows_command_own(mid, P, Command_Auto)} :
        LET cow == Cows_get_cow(mid.cows, P)
            cell == Board_get_ground_cell(mid.board, cow.position)
            child_on_colour ==
                \E child \in ChildrenOf(level, P) :
                    LET at == Board_get_ground_cell(mid.board, Cows_get_cow(mid.cows, child).position)
                    IN  at.tag = "ColouredBlock" /\ at.colour = cell.colour
            stops == \/ cell.tag = "Arrow"
                     \/ cell.tag = "ColouredArrow" /\ child_on_colour
            expected == IF stops THEN Cow_walk_stop(cow, mid.board, cell.direction)
                        ELSE Cow_walk_bounce(cow, mid.board)
        IN  /\ Cows_get_cow(post.cows, P) = expected
            /\ post.board = mid.board
            /\ \A other \in CowIndices \ {P} :
                  Cows_get_cow(post.cows, other) = Cows_get_cow(mid.cows, other)

\* after an Auto tick the player, which stood on ColouredArrow(Red, Down) with
\* its child on a Red block, has walked Down
C23_Witness ==
    /\ level_cmd = Command_Auto
    /\ Cow_get_cell(Cows_get_cow(level_old.cows, 0), level_old.board)
          = GroundCell_ColouredArrow("Red", "Down")
    /\ ChildrenOf(level_old, 0) = {1}
    /\ Cow_get_cell(Cows_get_cow(level.cows, 1), level.board) = GroundCell_ColouredBlock("Red")
    /\ Cows_get_cow(level.cows, 0).direction = "Down"
    /\ Cows_get_cow(level.cows, 0).position
          = Point_increment_2d(Cows_get_cow(level_old.cows, 0).position, "Down")

\* C24: Cow::walk_stop(direction) always leaves the cow facing direction; the
\* cow is one step further in that direction if the ground cell there is
\* neither Fence nor Wall and where it was otherwise; its children are kept
\* and the board is not written (a Walk command leaves the board as the
\* cow's children left it).
C24_WalkStop ==
    /\ \A P \in CowIndices :
        \A mid \in {Cows_update_children(LevelSt(level), P)} :
        \A d \in Direction :
          LET cow == Cows_get_cow(level.cows, P)
              ahead == StepFrom(cow.position, d, 1)
              free == Board_get_ground_cell(level.board, ahead).tag \notin {"Fence", "Wall"}
              after == Cow_walk_stop(cow, level.board, d)
          IN  /\ after.direction = d
              /\ after.position = IF free THEN ahead ELSE cow.position
              /\ after.children = cow.children
              /\ \A post \in {Cows_command_own(mid, P, Command_Walk(d))} :
                    /\ post.board = mid.board
                    /\ Cows_get_cow(post.cows, P)
                          = Cow_walk_stop(Cows_get_cow(mid.cows, P), mid.board, d)
    /\ level_cmd \in {Command_Walk(d) : d \in Direction}
          => Cows_get_cow(level.cows, level.cows.player).direction = level_cmd.direction

\* after Walk(Up) the player faces Up and stands where it stood, under the
\* wall of the pasture; its board is the one before the tick
C24_Witness ==
    /\ level_cmd = Command_Walk("Up")
    /\ Cows_get_cow(level_old.cows, 0).direction # "Up"
    /\ Cows_get_cow(level_old.cows, 0).children = <<>>
    /\ Board_get_ground_cell(level.board, StepFrom(Cows_get_cow(level_old.cows, 0).position, "Up", 1)).tag
          = "Wall"
    /\ Cows_get_cow(level.cows, 0).direction = "Up"
    /\ Cows_get_cow(level.cows, 0).position = Cows_get_cow(level_old.cows, 0).position

\* the commands that do not move the cow they are given to
StillCommands ==
    {Command_Halt, Command_PlaceBlock("Red"), Command_PlaceBlock("Blue"),
     Command_RotateRight, Command_RotateLeft}

\* a quarter-turn on the screen, where y grows downwards
Clockwise(d) ==
    CASE d = "Up" -> "Right" [] d = "Right" -> "Down" [] d = "Down" -> "Left" [] d = "Left" -> "Up"

Anticlockwise(d) ==
    CASE d = "Up" -> "Left" [] d = "Left" -> "Down" [] d = "Down" -> "Right" [] d = "Right" -> "Up"

\* kind and payload of a cell, without its adjacency mask
KindAndPayload(cell) == <<cell.tag, cell.colour, cell.direction>>

\* C25: Halt, PlaceBlock, RotateRight and RotateLeft, applied to a cow once
\* its children have acted, leave every cow (the commanded one too) and the
\* overlay as they were.  Halt changes nothing; PlaceBlock(c) makes the ground
\* under the cow ColouredBlock(c); the rotations turn Arrow, ColouredArrow and
\* ArrowBlock under the cow a quarter clockwise (RotateRight) or anticlockwise
\* (RotateLeft), swap the two rotate markers and keep Empty, ColouredBlock,
\* Fence and Wall; no other ground cell, stored or default, changes kind or
\* payload.
C25_StillCommands ==
    \A P \in CowIndices :
      \A mid \in {Cows_update_children(LevelSt(level), P)} :
      \A command \in StillCommands :
      \A post \in {Cows_command_own(mid, P, command)} :
        LET at == Cows_get_cow(mid.cows, P).position
            was == Board_get_ground_cell(mid.board, at)
            now == Board_get_ground_cell(post.board, at)
            turned(turn(_)) ==
                CASE was.tag \in {"Arrow", "ColouredArrow", "ArrowBlock"} ->
                        <<was.tag, was.colour, turn(was.direction)>>
                  [] was.tag = "RotateLeft" -> KindAndPayload(GroundCell_RotateRight)
                  [] was.tag = "RotateRight" -> KindAndPayload(GroundCell_RotateLeft)
                  [] was.tag \in {"Empty", "ColouredBlock", "Fence", "Wall"} -> KindAndPayload(was)
        IN  /\ post.cows = mid.cows
            /\ post.board.overlay = mid.board.overlay
            /\ command.tag = "Halt" => post = mid
            /\ command.tag = "PlaceBlock" => now = GroundCell_ColouredBlock(command.colour)
            /\ command.tag = "RotateRight" => KindAndPayload(now) = turned(Clockwise)
            /\ command.tag = "RotateLeft" => KindAndPayload(now) = turned(Anticlockwise)
            /\ post.board.ground.default = mid.board.ground.default
            /\ \A q \in (DOMAIN post.board.ground.layer \cup DOMAIN mid.board.ground.layer) \ {at} :
                  KindAndPayload(Board_get_ground_cell(post.board, q))
                      = KindAndPayload(Board_get_ground_cell(mid.board, q))

\* after a tick the child of the cow on the RotateRight marker stands where
\* it stood, facing as it did, and the ColouredArrow(Red, Down) under it
\* points Left
C25_Witness ==
    /\ level_cmd \in PlayerCommands
    /\ Board_get_ground_cell(level_old.board, <<2, 1>>) = GroundCell_RotateRight
    /\ Cows_get_cow(level_old.cows, 1).position = <<2, 1>>
    /\ Cows_get_cow(level_old.cows, 1).children = <<2>>
    /\ Cows_get_cow(level_old.cows, 2).position = <<2, 2>>
    /\ Board_get_ground_cell(level_old.board, <<2, 2>>) = GroundCell_ColouredArrow("Red", "Down")
    /\ Board_get_ground_cell(level.board, <<2, 2>>) = GroundCell_ColouredArrow("Red", "Left")
    /\ Cows_get_cow(level.cows, 2) = Cows_get_cow(level_old.cows, 2)
    /\ level.board.overlay = level_old.board.overlay

-----------------------------------------------------------------------------
(* Further claims on SpecGod: when the running test is ticked and reported *)

\* the last event was a step taken in the Playing status
SteppedPlaying == god_log.kind = "step" /\ god_log.before.tag = "Playing"

\* the Success Evaluator on the state the step found
RunningBefore ==
    SuccessState_is_running(LevelState_success_state(god_log.before.state.current_state))

\* the accumulated time the step compared with the step interval
StepSum == god_log.before.state.animation_time + god_log.dt

\* what a step in Playing does, with the tick due when the accumulated time
\* has reached the interval
StepRule ==
    SteppedPlaying =>
        LET s == god_log.before.state
            due == StepSum >= s.speed /\ RunningBefore
        IN  /\ due <=> Ticked(god_log.before, god_log.mid)
            /\ due => god_log.mid.state =
                        [s EXCEPT !.animation_time = 0,
                                  !.old_state = s.current_state,
                                  !.current_state = LevelState_auto(s.current_state)]
            /\ ~due => /\ god_log.mid.tag \in {"Playing", "Report"}
                       /\ god_log.mid.tag = "Playing"
                             => god_log.mid.state = [s EXCEPT !.animation_time = StepSum]
                       /\ god_log.mid.tag = "Report" => ~RunningBefore

\* a tick that is not the first of its test comes after steps whose times,
\* since the tick before it, add up to the interval or more
TicksApart ==
    (/\ god_log'.kind = "step"
     /\ Ticked(god_log'.before, god_log'.mid)
     /\ god_log.ticks >= 1
     /\ god_log'.ticks = god_log.ticks + 1)
        => god_log.elapsed + god_log'.dt >= god_log'.before.state.speed

\* C26: in the Playing status a step adds dt to the accumulated time, which a
\* new test starts at one step interval, and applies a tick exactly when the
\* sum is at least the step interval (equal to it or more) and the Success
\* Evaluator reports Running.  The tick keeps the state before it as the
\* previous snapshot, applies Auto once and sets the accumulated time to 0,
\* so a step applies at most one tick and two ticks of a test are at least
\* one interval of accumulated dt apart; a state that is Succeeded or Failed
\* is not ticked again.
C26_TickWhenDue == []StepRule /\ [][TicksApart]_vars

\* the second tick of a test, applied by a step that brought the accumulated
\* time to the interval exactly
C26_Witness ==
    /\ SteppedPlaying
    /\ Ticked(god_log.before, god_log.mid)
    /\ god_log.ticks = 2
    /\ StepSum = god_log.before.state.speed
    /\ god_log.mid.state.old_state = god_log.before.state.current_state
    /\ god_log.mid.state.current_state # god_log.before.state.current_state

\* C26 as stated: a step in Playing applies a tick exactly when the
\* accumulated time has exceeded the step interval and the Success Evaluator
\* reports Running.
C26_TickWhenExceeded ==
    SteppedPlaying =>
        (Ticked(god_log.before, god_log.mid)
            <=> (StepSum > god_log.before.state.speed /\ RunningBefore))

\* C27: the status goes from Playing to Report only when the Success
\* Evaluator reports Succeeded or Failed and the steps taken since that state
\* was reached (by the last tick or, for a board that starts in it, at the
\* start of the test) were given at least one step interval of time.
C27_ReportAfterInterval ==
    (SteppedPlaying /\ god_log.mid.tag = "Report")
        => /\ ~RunningBefore
           /\ god_log.elapsed >= god_log.before.state.speed

-----------------------------------------------------------------------------
(* Further claims on SpecStack: the state an animation starts from *)

\* C28: after a push_state or a pop_state call, in the Forward or the
\* Backward direction, last_state() is the value current_state() had just
\* before the call; after purge_states, last_state() is current_state().
C28_LastIsPreviousCurrent ==
    /\ (stack_log.op \in {"push_state", "pop_state"} /\ ~stack.panicked)
          => StateStack_last_state(stack) = StateStack_current_state(stack_log.before)
    /\ (stack_log.op = "purge_states" /\ ~stack.panicked)
          => StateStack_last_state(stack) = StateStack_current_state(stack)

\* a second undo in a row: the stack was and stays Backward, last_state() is
\* the state that was current and current_state() is the one before it
C28_Witness ==
    /\ stack_log.op = "pop_state"
    /\ stack_log.before.time_direction = "Backward"
    /\ stack.time_direction = "Backward"
    /\ StateStack_last_state(stack) = StateStack_current_state(stack_log.before)
    /\ StateStack_current_state(stack) # StateStack_last_state(stack)

-----------------------------------------------------------------------------
(* Further claims on SpecLevel: who is commanded in a tick *)

\* the record of the calls of Cows::command in the tick that led here
TickLog == Cows_command_player(LevelStLogged(level_old), level_cmd).log

\* the place of a cow's call in a record that holds it
PlaceIn(log, cow_index) == CHOOSE k \in 1 .. Len(log) : log[k].cow_index = cow_index

\* the cows of the tree under a cow, the cow included
SubtreeOf(ls, cow_index) == {cow_index} \cup Descendants(ls, cow_index)

\* the herd is a forest and its player has no parent
IsForestWithFreePlayer(ls) ==
    LET n == Len(ls.cows.cows)
    IN  /\ \A i \in 0 .. (n - 1) :
              /\ i \notin Descendants(ls, i)
              /\ Cardinality({p \in 0 .. (n - 1) : i \in ChildrenOf(ls, p)}) <= 1
              /\ \A k1, k2 \in 1 .. Len(ls.cows.cows[i + 1].children) :
                    ls.cows.cows[i + 1].children[k1] = ls.cows.cows[i + 1].children[k2] => k1 = k2
        /\ \A p \in 0 .. (n - 1) : ls.cows.player \notin ChildrenOf(ls, p)

\* the distance between two cells in steps
StepsBetween(p, q) ==
    (IF p[1] >= q[1] THEN p[1] - q[1] ELSE q[1] - p[1])
        + (IF p[2] >= q[2] THEN p[2] - q[2] ELSE q[2] - p[2])

\* C29: in a command_player(cmd) tick on a forest whose player has no parent
\* the first call commands the player with cmd and the calls for the
\* player's tree come before all others; then the roots are commanded Auto in
\* increasing index order, each tree complete before the next root; every
\* cow is commanded exactly once, and no cow is more than one cell from
\* where it stood.
C29_EachCowOnce ==
    (level_cmd \in PlayerCommands /\ IsForestWithFreePlayer(level_old)) =>
        \A log \in {TickLog} :
            LET n == Len(level_old.cows.cows)
                player == level_old.cows.player
                roots == level_old.cows.parents
                tree(i) == SubtreeOf(level_old, i)
            IN  /\ Len(log) = n
                /\ {log[k].cow_index : k \in 1 .. Len(log)} = 0 .. (n - 1)
                /\ log[1] = [cow_index |-> player, command |-> level_cmd]
                /\ {log[k].cow_index : k \in 1 .. Cardinality(tree(player))} = tree(player)
                /\ \A r \in 1 .. Len(roots) :
                      /\ log[PlaceIn(log, roots[r])].command = Command_Auto
                      /\ {log[k].cow_index :
                            k \in PlaceIn(log, roots[r])
                                    .. (PlaceIn(log, roots[r]) + Cardinality(tree(roots[r])) - 1)}
                            = tree(roots[r])
                /\ \A r1, r2 \in 1 .. Len(roots) :
                      r1 < r2 => /\ roots[r1] < roots[r2]
                                 /\ PlaceIn(log, roots[r1]) < PlaceIn(log, roots[r2])
                /\ \A i \in 0 .. (n - 1) :
                      StepsBetween(Cows_get_cow(level.cows, i).position,
                                   Cows_get_cow(level_old.cows, i).position) <= 1

\* a tick of the herd with two roots: the player was commanded first, then
\* root 1 and its child 3, then root 2, and the player walked one cell
C29_Witness ==
    /\ level_cmd \in {Command_Walk(d) : d \in Direction}
    /\ level_old.cows.parents = <<1, 2>>
    /\ IsForestWithFreePlayer(level_old)
    /\ [k \in 1 .. Len(TickLog) |-> TickLog[k].cow_index] = <<0, 1, 3, 2>>
    /\ StepsBetween(Cows_get_cow(level.cows, 0).position,
                    Cows_get_cow(level_old.cows, 0).position) = 1

\* the cows that occur in no children list
Parentless(ls) ==
    {i \in 0 .. (Len(ls.cows.cows) - 1) :
        \A p \in 0 .. (Len(ls.cows.cows) - 1) : i \notin ChildrenOf(ls, p)}

\* the entries of a sequence are those of a set, each once and ascending
ListsAscending(seq, set) ==
    /\ {seq[k] : k \in 1 .. Len(seq)} = set
    /\ \A k1, k2 \in 1 .. Len(seq) : k1 < k2 => seq[k1] < seq[k2]

\* C30: the root list Cows::new computes holds, in increasing order, exactly
\* the cows other than the player that occur in no cow's children list (the
\* player is left out even when it has no parent), whichever cow of the herd
\* is the player, and no tick changes it.
C30_RootsExceptPlayer ==
    /\ ListsAscending(level.cows.parents, Parentless(level) \ {level.cows.player})
    /\ \A player \in CowIndices :
          \A cows \in {Cows_new(player, level.cows.cows)} :
              ListsAscending(cows.parents, Parentless([cows |-> cows]) \ {player})
    /\ level.cows.parents = level_old.cows.parents
    /\ level.cows.player = level_old.cows.player
    /\ \A i \in CowIndices : ChildrenOf(level, i) = ChildrenOf(level_old, i)

\* after a tick of the herd with two roots the list is still cows 1 and 2;
\* the player, cow 0, has no parent and is not in it
C30_Witness ==
    /\ level_cmd \in PlayerCommands
    /\ level # level_old
    /\ level.cows.parents = <<1, 2>>
    /\ Parentless(level) = {0, 1, 2}
    /\ level.cows.player = 0

\* C30 as stated: the root list holds exactly the cows that occur in no
\* cow's children list, and no tick changes it.
C30_RootsAreParentless ==
    /\ {level.cows.parents[k] : k \in 1 .. Len(level.cows.parents)} = Parentless(level)
    /\ level.cows.parents = level_old.cows.parents

-----------------------------------------------------------------------------
(* SpecEngine: one Cows::command_player call taken one call of Cows::command
   at a time, on herds whose children vectors form a forest, share a child
   or hold a cycle.  engine is [start, command, st, todo, frames, status,
   log, top]: st is the threaded [cows, board]; todo the calls command_player
   has still to make (the player, then the cached parents); frames the active
   calls of command, innermost last, each with the children it has still to
   call; log the calls made, each with the number of the command_player call
   it belongs to.  The call stack of the machine holds MaxStackDepth calls. *)

MaxStackDepth == 6

\* the children of a cow as a set; cows is a Cows value
Cows_children_set(cows, cow_index) ==
    {cows.cows[cow_index + 1].children[k] : k \in 1 .. Len(cows.cows[cow_index + 1].children)}

\* the cows reached from a set of cows along children vectors, the set included
RECURSIVE ReachedFrom(_, _)
ReachedFrom(cows, set) ==
    LET next == set \cup UNION {Cows_children_set(cows, i) : i \in set}
    IN  IF next = set THEN set ELSE ReachedFrom(cows, next)

OwnAncestor(cows, i) == i \in ReachedFrom(cows, Cows_children_set(cows, i))

Acyclic(cows) == \A i \in 0 .. (Len(cows.cows) - 1) : ~OwnAncestor(cows, i)

\* a cycle of children vectors can be reached from the player or from a root
CycleReachable(cows) ==
    \E i \in ReachedFrom(cows, {cows.player} \cup {cows.parents[k] : k \in 1 .. Len(cows.parents)}) :
        OwnAncestor(cows, i)

\* no cow is its own ancestor, has two parents or is listed twice by one
IsForest(cows) ==
    /\ Acyclic(cows)
    /\ \A i \in 0 .. (Len(cows.cows) - 1) :
          /\ Cardinality({p \in 0 .. (Len(cows.cows) - 1) : i \in Cows_children_set(cows, p)}) <= 1
          /\ Cardinality(Cows_children_set(cows, i)) = Len(cows.cows[i + 1].children)

\* a mutant of Cows_command_enter: the children are not called
Cows_command_enter_no_children(st, cow_index, command) ==
    LET cow == Cows_get_cow(st.cows, cow_index)
    IN  [cow_index |-> cow_index, command |-> command,
         children |-> <<>>,
         child_command |-> Cows_child_command(Cow_get_cell(cow, st.board))]

\* the entry of Cows::command: update_children reads the cell under the cow,
\* clones its children vector and fixes the command they will all be given
Cows_command_enter(st, cow_index, command) ==
    LET cow == Cows_get_cow(st.cows, cow_index)
    IN  [cow_index |-> cow_index, command |-> command,
         children |-> cow.children,
         child_command |-> Cows_child_command(Cow_get_cell(cow, st.board))]

\* herds as [player, cow_data]: forests, a shared child, a player that is a
\* child, and cycles through the player, under a root and apart from both
EngineHerds ==
    {[player |-> 0, cow_data |-> TwoRootHerd],
     [player |-> 0, cow_data |-> << Cow_new(<<2, 1>>, "Right", <<1>>),
                                    Cow_new(<<2, 2>>, "Right", <<2>>),
                                    Cow_new(<<1, 2>>, "Right", <<>>) >>],
     [player |-> 0, cow_data |-> << Cow_new(<<1, 1>>, "Right", <<>>),
                                    Cow_new(<<2, 1>>, "Right", <<2, 3>>),
                                    Cow_new(<<2, 2>>, "Right", <<3>>),
                                    Cow_new(<<1, 2>>, "Right", <<>>) >>],
     [player |-> 2, cow_data |-> << Cow_new(<<1, 1>>, "Right", <<1>>),
                                    Cow_new(<<2, 1>>, "Right", <<2>>),
                                    Cow_new(<<2, 2>>, "Right", <<>>) >>],
     [player |-> 0, cow_data |-> << Cow_new(<<2, 1>>, "Right", <<1>>),
                                    Cow_new(<<2, 2>>, "Right", <<0>>) >>],
     [player |-> 0, cow_data |-> << Cow_new(<<1, 1>>, "Right", <<>>),
                                    Cow_new(<<2, 1>>, "Right", <<2>>),
                                    Cow_new(<<2, 2>>, "Right", <<3>>),
                                    Cow_new(<<1, 2>>, "Right", <<2>>) >>],
     [player |-> 0, cow_data |-> << Cow_new(<<1, 1>>, "Right", <<>>),
                                    Cow_new(<<2, 1>>, "Right", <<2>>),
                                    Cow_new(<<2, 2>>, "Right", <<1>>) >>]}

EngineGrounds ==
    {GroundCell_Empty, GroundCell_ColouredBlock("Red"), GroundCell_ArrowBlock("Down"),
     GroundCell_RotateRight}

InitEngine ==
    /\ \E herd \in EngineHerds, ground_1 \in EngineGrounds, ground_2 \in EngineGrounds,
          command \in PlayerCommands :
          \E st \in {[cows |-> Cows_new(herd.player, herd.cow_data),
                      board |-> Board_set_ground_cell(
                                    Board_set_ground_cell(ArenaBoard, <<2, 1>>, ground_1),
                                    <<2, 2>>, ground_2)]} :
              engine = [start |-> st, command |-> command, st |-> st,
                        todo |-> <<[cow_index |-> st.cows.player, command |-> command]>>
                                    \o [k \in 1 .. Len(st.cows.parents) |->
                                            [cow_index |-> st.cows.parents[k],
                                             command |-> Command_Auto]],
                        frames |-> <<>>, status |-> "running", log |-> <<>>, top |-> 0]
    /\ IdleLayer /\ IdleStack /\ IdleLevel /\ IdleGod /\ IdleCowLevel /\ IdleOverworld

EngineOthersUnchanged ==
    UNCHANGED <<layer, layer_op, stack, stack_log, level, level_old, level_cmd, god, god_log,
                cow_level, cow_log, overworld, overworld_log>>

\* command_player calls command for the player or for the next cached parent
CommandPlayerCalls ==
    /\ engine.status = "running" /\ engine.frames = <<>> /\ engine.todo # <<>>
    /\ \E frame \in {Cows_command_enter(engine.st, Head(engine.todo).cow_index,
                                         Head(engine.todo).command)} :
        engine' = [engine EXCEPT
            !.todo = Tail(@),
            !.top = @ + 1,
            !.frames = <<frame>>,
            !.log = Append(@, [cow_index |-> Head(engine.todo).cow_index, top |-> engine.top + 1])]
    /\ EngineOthersUnchanged

\* update_children calls command for the next child; a call the stack has no
\* room for ends the program
UpdateChildrenCalls ==
    /\ engine.status = "running" /\ engine.frames # <<>>
    /\ LET depth == Len(engine.frames)
           frame == engine.frames[depth]
       IN  /\ frame.children # <<>>
           /\ IF depth >= MaxStackDepth
              THEN engine' = [engine EXCEPT !.status = "overflow"]
              ELSE \E called \in {Cows_command_enter(engine.st, Head(frame.children),
                                                        frame.child_command)} :
                   engine' = [engine EXCEPT
                      !.frames = Append([@ EXCEPT ![depth].children = Tail(@)], called),
                      !.log = Append(@, [cow_index |-> Head(frame.children), top |-> engine.top])]
    /\ EngineOthersUnchanged

\* a call whose children are done applies its own command and returns
CommandOwn ==
    /\ engine.status = "running" /\ engine.frames # <<>>
    /\ LET depth == Len(engine.frames)
           frame == engine.frames[depth]
       IN  /\ frame.children = <<>>
           /\ \E st \in {Cows_command_own(engine.st, frame.cow_index, frame.command)} :
                  engine' = [engine EXCEPT !.st = st, !.frames = SubSeq(@, 1, depth - 1)]
    /\ EngineOthersUnchanged

CommandPlayerReturns ==
    /\ engine.status = "running" /\ engine.frames = <<>> /\ engine.todo = <<>>
    /\ engine' = [engine EXCEPT !.status = "returned"]
    /\ EngineOthersUnchanged

NextEngine == CommandPlayerCalls \/ UpdateChildrenCalls \/ CommandOwn \/ CommandPlayerReturns

SpecEngine == InitEngine /\ [][NextEngine]_vars

\* the program runs on: a call that can be made is made
SpecEngineFair == SpecEngine /\ WF_vars(NextEngine)

\* the cows called within one command_player call of command, as a bag of indices
CallsUnder(top) ==
    {k \in 1 .. Len(engine.log) : engine.log[k].top = top}

\* what a returned command_player call on a forest has done
ReturnedOnForest ==
    (engine.status = "returned" /\ IsForest(engine.start.cows)) =>
        /\ \A top \in 1 .. engine.top :
              LET first == CHOOSE k \in CallsUnder(top) : \A j \in CallsUnder(top) : k <= j
                  tree == ReachedFrom(engine.start.cows, {engine.log[first].cow_index})
              IN  /\ {engine.log[k].cow_index : k \in CallsUnder(top)} = tree
                  /\ Cardinality(CallsUnder(top)) = Cardinality(tree)
        /\ \A result \in {Cows_command_player(engine.start, engine.command)} :
              /\ engine.st.cows = result.cows
              /\ engine.st.board = result.board

\* C31: on a herd in which no cow is its own ancestor command_player
\* returns, and on a forest each of its calls of command has by then called
\* every cow of the tree under its cow exactly once; the call fails to return
\* only when a cycle of children vectors can be reached from the player or
\* from a root, and then it never returns.
C31_Terminates ==
    /\ (Acyclic(engine.start.cows) ~> engine.status = "returned")
    /\ (~CycleReachable(engine.start.cows) ~> engine.status = "returned")
    /\ [](engine.status = "overflow" => CycleReachable(engine.start.cows))
    /\ [](CycleReachable(engine.start.cows) => engine.status # "returned")
    /\ []ReturnedOnForest

\* the call has returned on the forest with two roots after four calls of
\* command, the deepest two calls deep
C31_Witness ==
    /\ engine.status = "returned"
    /\ IsForest(engine.start.cows)
    /\ Len(engine.start.cows.cows) = 4
    /\ [k \in 1 .. Len(engine.log) |-> engine.log[k].cow_index] = <<0, 1, 3, 2>>
    /\ engine.st # engine.start

\* ---------------------------------------------------------------------
\* The assertion of CowLevel::step on a Failed state (cow_level.rs 118-121)

\* step reaches the match on success_state with a Failed current state
\* while the level has not finished animating
CowLevel_failed_assertion_fails(self, dt, keyboard) ==
    \E timed \in {[self EXCEPT !.animation_time = @ + dt]} :
    \E purged \in {IF CowLevel_keyboard_event(timed, keyboard, "KeyR")
                   THEN CowLevel_purge_states(timed) ELSE timed} :
        /\ ~CowLevel_keyboard_event(purged, keyboard, "KeyU")
        /\ ~StateStack_current_state_fails(purged.states)
        /\ LevelState_success_state(StateStack_current_state(purged.states)) = "Failed"
        /\ ~CowLevel_is_finished_animating(purged)

\* C33: in no state the level reaches (by steps with positive dt, key events
\* and clicks) does a step find the current state Failed before the level has
\* finished animating: the assertion of the Failed branch holds in every step
C33_FailedAssertionHolds ==
    CowLive =>
        \A dt \in CowStepTimes, keyboard \in Keyboards :
            ~CowLevel_failed_assertion_fails(cow_level, dt, keyboard)

\* ---------------------------------------------------------------------
\* Board::set_cell_at_point over the whole palette (board.rs 225-234)

GroundOnlyTypes ==
    {"ColouredBlock", "Arrow", "ColouredArrow", "ArrowBlock", "RotateLeft", "RotateRight",
     "Fence", "Wall"}

AllColours == {"Red", "Blue", "Green", "Orange"}

\* every value the palette can hand over, with one direction of each axis
PaletteValues ==
    {PaletteResult(cell_type, colour, direction) :
        cell_type \in GroundOnlyTypes \cup {"Overlay", "Empty"},
        colour \in AllColours, direction \in {"Up", "Left"}}

\* the ground cell the claim names for a palette value, without its mask
PaletteGroundCell(value) ==
    CASE value.cell_type \in {"ColouredBlock"} -> <<"ColouredBlock", value.colour, "-">>
      [] value.cell_type \in {"Arrow", "ArrowBlock"} -> <<value.cell_type, "-", value.direction>>
      [] value.cell_type = "ColouredArrow" -> <<"ColouredArrow", value.colour, value.direction>>
      [] OTHER -> <<value.cell_type, "-", "-">>

PaletteOverlayTag(colour) ==
    CASE colour = "Green" -> "Success" [] colour = "Red" -> "Failure"
      [] colour = "Orange" -> "Input" [] colour = "Blue" -> "Output"

ClickedCells == {<<2, 2>>, <<3, 1>>}

SetCellAtPointAsClaimed(board, index, value) ==
    \A post \in {Board_set_cell_at_point(board, index, value)} :
        CASE value.cell_type \in GroundOnlyTypes ->
                /\ KindAndPayload(Board_get_ground_cell(post, index)) = PaletteGroundCell(value)
                /\ post.overlay = board.overlay
          [] value.cell_type = "Overlay" ->
                /\ Board_get_overlay_cell(post, index).tag = PaletteOverlayTag(value.colour)
                /\ post.ground = board.ground
          [] value.cell_type = "Empty" ->
                /\ Board_get_ground_cell(post, index).tag = "Empty"
                /\ Board_get_overlay_cell(post, index).tag = "Empty"

\* C32: on every board the level reaches, set_cell_at_point with a palette
\* value of a ground-only type writes that cell into the ground and leaves
\* the overlay as it was; with the Overlay type it writes Success, Failure,
\* Input or Output (for Green, Red, Orange, Blue) into the overlay and leaves
\* the ground as it was; with Empty it writes Empty into both layers.  No
\* value makes it fail.
C32_SetCellAtPoint ==
    (CowLive /\ cow_log.kind \in {"new", "click"}) =>
        \A board \in {StateStack_current_state(cow_level.states).board} :
            \A index \in ClickedCells, value \in PaletteValues :
                SetCellAtPointAsClaimed(board, index, value)

\* a click on the board has written Success over grid cell (2,2) of the
\* current state and left its ground alone
C32_Witness ==
    /\ CowLive /\ cow_log.kind = "click"
    /\ \E before \in {StateStack_current_state(cow_log.base).board},
          after \in {StateStack_current_state(cow_level.states).board} :
          /\ Board_get_overlay_cell(before, <<2, 2>>).tag = "Empty"
          /\ Board_get_overlay_cell(after, <<2, 2>>).tag = "Success"
          /\ Board_get_ground_cell(after, <<2, 2>>).tag = "ArrowBlock"
          /\ after.ground = before.ground

\* ---------------------------------------------------------------------
\* Fences and walls under engine ticks (cow.rs 265-309, cell.rs 273-330)

NoCowOnSolid(ls) ==
    \A i \in 1 .. Len(ls.cows.cows) : ~Solid(ls.board, ls.cows.cows[i].position)

\* the coordinates whose ground cell is of the kind tag; the default cell of
\* a board is Empty, so only stored cells can hold a fence or a wall
CellsHolding(ls, tag) ==
    {p \in DOMAIN ls.board.ground.layer : ls.board.ground.layer[p].tag = tag}

\* C34: a tick (command_player) that starts with no cow on a Fence or Wall
\* cell ends with no cow on a Fence or Wall cell, and with Fence and Wall at
\* exactly the coordinates that held them before it; so from a start with no
\* cow on a Fence or Wall this stays so after any number of ticks, and the
\* Fence and Wall coordinates are those of the start
C34_SolidKept ==
    (level_cmd.tag # "new" /\ NoCowOnSolid(level_old)) =>
        /\ NoCowOnSolid(level)
        /\ CellsHolding(level, "Fence") = CellsHolding(level_old, "Fence")
        /\ CellsHolding(level, "Wall") = CellsHolding(level_old, "Wall")
        /\ level.board.ground.default.tag = "Empty"

\* the player was sent Down towards the fence at (2,2) and stayed where it
\* was; its child, sent Down by the arrow block under the player, turned to
\* the wall below it and stayed where it was too
C34_Witness ==
    /\ level_cmd = Command_Walk("Down")
    /\ NoCowOnSolid(level_old)
    /\ CellsHolding(level_old, "Fence") = {<<2, 2>>}
    /\ CellsHolding(level_old, "Wall") = {p \in ArenaRing : TRUE}
    /\ level_old.cows.cows[1].position = <<2, 1>>
    /\ level.cows.cows[1].position = <<2, 1>>
    /\ level.cows.cows[2].position = level_old.cows.cows[2].position
    /\ level_old.cows.cows[2].direction = "Right"
    /\ level.cows.cows[2].direction = "Down"

\* ---------------------------------------------------------------------
\* The panics of the harness (god_level.rs 208-240, 284-295, 314-342)

\* C37: a GodLevel with at least one test never panics, whatever buttons are
\* pressed, steps taken, reports confirmed and scene entries made: play() is
\* not called on Stopped, start() is not called on a status other than
\* Stopped, and get_current_test never indexes past the end of the tests
C37_NoPanic ==
    Len(god.tests) > 0 =>
        /\ ~god.panicked
        /\ god.running_state.tag # "Panic"
        /\ god.current_test \in 0 .. Len(god.tests)
        /\ god.running_state.tag \in {"Playing", "Paused", "Report"} => god.current_test >= 1

\* the second test of a list has been started by a step, after the first one
\* passed and its report was confirmed
C37_Witness ==
    /\ Len(god.tests) = 2
    /\ god_log.kind = "step" /\ god_log.started
    /\ god_log.before.tag = "Report" /\ god_log.confirm
    /\ god.current_test = 2
    /\ god.running_state.tag \in {"Playing", "Report"}
    /\ ~god.panicked

\* ---------------------------------------------------------------------
\* The authored board of the harness (god_level.rs 214-222, 250-268, 314-322)

\* a step of the harness that changes initial_state is a board click made
\* while the status was Stopped
AuthoredBoardKept ==
    god'.initial_state # god.initial_state =>
        /\ GodLevelStatus_is_stopped(god.running_state)
        /\ god_log'.kind = "click_board"

\* a test that has just been started runs on the authored board with its own
\* input written: apart from the ground of the Input cells, every cell of
\* both layers is of the kind it is on the authored board, and so are the cows
RunsFromAuthoredBoard ==
    (god_log.started /\ god.running_state.tag = "Playing") =>
        \E test \in {god.tests[god.current_test]} :
        \E run \in {god.running_state.state.current_state} :
            /\ run = LevelState_set_inputs(god.initial_state, test.input).state
            /\ god.running_state.test = test
            /\ InputsWritten(god.initial_state.board, test.input, run.board)
            /\ run.cows = god.initial_state.cows
            /\ run.board.ground.default = god.initial_state.board.ground.default
            /\ \A p \in (DOMAIN run.board.ground.layer
                            \cup DOMAIN god.initial_state.board.ground.layer)
                        \ InputCells(god.initial_state.board) :
                  KindAndPayload(Board_get_ground_cell(run.board, p)) =
                      KindAndPayload(Board_get_ground_cell(god.initial_state.board, p))

\* C35: initial_state changes only in a board click made while the status is
\* Stopped; no button press, step, confirmed report, scene entry or click made
\* in another status changes it, and each test of a run starts on a copy of
\* it with only that test's input written onto the Input cells
C35_AuthoredBoard == [][AuthoredBoardKept]_vars /\ []RunsFromAuthoredBoard

\* the board was clicked while the second test of a run was playing on a
\* board authored before the run
C35_Witness ==
    /\ god_log.kind = "click_board"
    /\ god.running_state.tag = "Playing"
    /\ god.current_test = 2
    /\ god.initial_state # LevelState_new
    /\ god.running_state.state.current_state.board # god.initial_state.board

\* ---------------------------------------------------------------------
\* StateStack as a plain undo list (state_stack.rs 17-66, 80-86)

\* the list a stack stands for: the older states, followed by the top unless
\* the direction is Backward
UndoList(s) ==
    IF s.time_direction = "Forward" THEN Append(s.state_stack, s.stack_top)
    ELSE s.state_stack

UndoList_push(list, state) == Append(list, state)
UndoList_pop(list) == IF Len(list) = 1 THEN list ELSE Front(list)
UndoList_purge(list) == <<Head(list)>>

\* C36: under every interleaving of push_state, pop_state and purge_states
\* the stack stands for a non-empty list whose last element is
\* current_state(); push_state appends the state pushed to that list,
\* pop_state removes its last element unless it has length 1, and
\* purge_states keeps its first element only.  No call panics.
C36_RefinesUndoList ==
    /\ ~stack.panicked
    /\ UndoList(stack) # <<>>
    /\ StateStack_current_state(stack) = Last(UndoList(stack))
    /\ CASE stack_log.op = "push_state" ->
                UndoList(stack) = UndoList_push(UndoList(stack_log.before), stack_log.pushes)
         [] stack_log.op = "pop_state" ->
                UndoList(stack) = UndoList_pop(UndoList(stack_log.before))
         [] stack_log.op = "purge_states" ->
                UndoList(stack) = UndoList_purge(UndoList(stack_log.before))
         [] OTHER -> UndoList(stack) = <<0>>

\* a second undo in a row took a state off a list of three, and the state
\* now current is one that an earlier push after an undo left in the history
C36_Witness ==
    /\ stack_log.op = "pop_state"
    /\ stack_log.before.time_direction = "Backward"
    /\ stack.time_direction = "Backward"
    /\ Len(UndoList(stack_log.before)) = 3
    /\ UndoList(stack) = Front(UndoList(stack_log.before))
    /\ stack_log.discarded # {}
    /\ StateStack_current_state(stack) # stack.stack_top

\* ---------------------------------------------------------------------
\* The two rotations of a ground cell (cell.rs 300-330, direction.rs 12-27)

\* every ground cell: each kind with every colour, direction and mask
AllGroundCells ==
    {GroundCell_Empty, GroundCell_RotateRight, GroundCell_RotateLeft}
    \cup {GroundCell_ColouredBlock(c) : c \in AllColours}
    \cup {GroundCell_Arrow(d) : d \in Direction}
    \cup {GroundCell_ArrowBlock(d) : d \in Direction}
    \cup {GroundCell_ColouredArrow(c, d) : c \in AllColours, d \in Direction}
    \cup {GroundCell_Fence(s) : s \in 0 .. 15}
    \cup {GroundCell_Wall(s) : s \in 0 .. 15}

RotationsAsClaimed(c) ==
    /\ GroundCell_rotate_left(GroundCell_rotate_right(c)) = c
    /\ GroundCell_rotate_right(GroundCell_rotate_left(c)) = c
    /\ GroundCell_rotate_right(GroundCell_rotate_right(
            GroundCell_rotate_right(GroundCell_rotate_right(c)))) = c
    /\ GroundCell_rotate_left(GroundCell_rotate_left(
            GroundCell_rotate_left(GroundCell_rotate_left(c)))) = c
    /\ c.tag \in {"RotateLeft", "RotateRight"} =>
            /\ GroundCell_rotate_left(c) = GroundCell_rotate_right(c)
            /\ GroundCell_rotate_right(c) =
                    IF c.tag = "RotateLeft" THEN GroundCell_RotateRight
                    ELSE GroundCell_RotateLeft

\* C38: for every ground cell c, and so for every cell of the board the
\* engine is working on, rotate_left undoes rotate_right and rotate_right
\* undoes rotate_left, four rotate_right or four rotate_left give c back, and
\* on the RotateLeft and RotateRight markers both functions swap the two
C38_Rotations ==
    /\ \A c \in AllGroundCells : RotationsAsClaimed(c)
    /\ \A p \in DOMAIN engine.st.board.ground.layer :
            /\ engine.st.board.ground.layer[p] \in AllGroundCells
            /\ RotationsAsClaimed(engine.st.board.ground.layer[p])

\* command_player has returned after a cow rotated the arrow block under it
\* (the marker under its parent sent it RotateRight)
C38_Witness ==
    /\ engine.status = "returned"
    /\ Board_get_ground_cell(engine.start.board, <<2, 1>>) = GroundCell_RotateRight
    /\ Board_get_ground_cell(engine.start.board, <<2, 2>>) = GroundCell_ArrowBlock("Down")
    /\ Board_get_ground_cell(engine.st.board, <<2, 2>>) =
            GroundCell_rotate_right(GroundCell_ArrowBlock("Down"))
    /\ Board_get_ground_cell(engine.st.board, <<2, 2>>) = GroundCell_ArrowBlock("Left")

-----------------------------------------------------------------------------
(* level/overworld_level.rs.  OverworldLevelState is [board, player,       *)
(* animation_frame], the board a LevelLayer of overworld cells.            *)
(* OverworldLevel is [state, old_position, animation_time, to_reveal_next, *)
(* panicked], panicked a failed assert!.  save_state writes the state to   *)
(* the browser's local storage and changes nothing of the level.           *)
(* A KeyboardCommand is [tag |-> "Direction", direction] or                *)
(* [tag |-> "Space"]; what get_keyboard_command returns is an input of     *)
(* step: [some, command].                                                  *)

CELL_REVEAL_TIME == 300

OverworldCell_is_solid_to_cows(cell) ==
    cell.tag \in {"Empty", "Fence", "Wall", "BlockedPath"}

OverworldCell_can_be_cleared(cell) == cell.tag = "BlockedPath"

KeyboardCommand_Direction(d) == [tag |-> "Direction", direction |-> d]
KeyboardCommand_Space == [tag |-> "Space", direction |-> "-"]

\* Cow::walk_stop on the layer of an overworld
Cow_walk_stop_overworld(cow, board, direction) ==
    LET forwards == Point_increment_2d(cow.position, direction)
    IN  IF ~OverworldCell_is_solid_to_cows(LevelLayer_get_cell(board, forwards))
        THEN [cow EXCEPT !.direction = direction, !.position = forwards]
        ELSE [cow EXCEPT !.direction = direction]

OverworldLevelState_command(state, command) ==
    [state EXCEPT
        !.animation_frame = (@ + 1) % TOTAL_ANIMATION_FRAMES,
        !.player = IF command.tag = "Direction"
                   THEN Cow_walk_stop_overworld(@, state.board, command.direction)
                   ELSE @]

\* a mutant of OverworldLevel_add_adjacents: only the cells above and to the
\* right are queued
OverworldLevel_add_adjacents_two_ways(vector, point) ==
    vector \o <<Point_increment_2d(point, "Up"), Point_increment_2d(point, "Right")>>

OverworldLevel_add_adjacents(vector, point) ==
    vector \o [i \in 1 .. Len(Direction_for_every) |->
                    Point_increment_2d(point, Direction_for_every[i])]

\* the for loop of reveal: acc is [state, new_reveals]
RECURSIVE OverworldLevel_reveal_loop(_, _)
OverworldLevel_reveal_loop(acc, points) ==
    IF points = <<>> THEN acc
    ELSE CHOOSE last \in
            {OverworldLevel_reveal_loop(next, Tail(points)) :
                next \in {IF OverworldCell_can_be_cleared(
                                LevelLayer_get_cell(acc.state.board, Head(points)))
                          THEN [state |-> [acc.state EXCEPT !.board =
                                    LevelLayer_set_cell(@, Head(points),
                                        OverworldCell_ClearPath(Surroundings_new))],
                                new_reveals |->
                                    OverworldLevel_add_adjacents(acc.new_reveals, Head(points))]
                          ELSE acc}}
            : TRUE

OverworldLevel_reveal(self) ==
    IF self.animation_time < CELL_REVEAL_TIME THEN self
    ELSE CHOOSE revealed \in
            {[self EXCEPT !.animation_time = 0,
                          !.state = acc.state,
                          !.to_reveal_next = acc.new_reveals] :
                acc \in {OverworldLevel_reveal_loop(
                            [state |-> self.state, new_reveals |-> <<>>],
                            self.to_reveal_next)}}
            : TRUE

OverworldLevel_current_cell(self) ==
    LevelLayer_get_cell(self.state.board, self.state.player.position)

\* [overworld, next_scene]
OverworldLevel_step(self, dt, opt_command) ==
    LET timed == [self EXCEPT !.animation_time = @ + dt]
    IN  IF timed.to_reveal_next # <<>>
        THEN [overworld |-> OverworldLevel_reveal(timed), next_scene |-> "Continue"]
        ELSE IF ~opt_command.some
        THEN [overworld |-> timed, next_scene |-> "Continue"]
        ELSE LET noted == [timed EXCEPT !.old_position = timed.state.player.position]
                 cell == OverworldLevel_current_cell(noted)
             IN  IF opt_command.command.tag = "Space" /\ cell.tag = "Level"
                 THEN [overworld |-> noted, next_scene |-> "Call"]
                 ELSE IF opt_command.command.tag = "Space" /\ cell.tag = "Finish"
                 THEN [overworld |-> noted, next_scene |-> "Return(Bool(true))"]
                 ELSE [overworld |->
                          [noted EXCEPT
                              !.state = OverworldLevelState_command(@, opt_command.command),
                              !.animation_time = 0],
                       next_scene |-> "Continue"]

OverworldLevel_returned_into(self, object) ==
    IF self.to_reveal_next # <<>> THEN [self EXCEPT !.panicked = TRUE]
    ELSE IF object = "Bool(true)"
    THEN [self EXCEPT !.to_reveal_next =
                OverworldLevel_add_adjacents(@, self.state.player.position)]
    ELSE self

OverworldLevel_from_data(state) ==
    [state |-> state, old_position |-> state.player.position, animation_time |-> 0,
     to_reveal_next |-> <<>>, panicked |-> FALSE]

-----------------------------------------------------------------------------
(* SpecOverworld: one OverworldLevel built by from_data and driven by       *)
(* step(dt, keyboard) while it is the active scene and by returned_into     *)
(* when the level it called returns, until it returns itself.               *)
(* overworld_log is [scene, kind, revealing, from, next_scene]: which scene *)
(* is running ("active" for this one, "called" for a level it called,       *)
(* "returned" once it has returned), the last handler, whether that handler *)
(* found cells queued for reveal, the board and the player's position at    *)
(* the last returned_into(Bool(true)), and what the last step returned.     *)

\* idle steps stop once animation_time has reached MaxOverworldTime
MaxOverworldTime == 200

OverworldStepTimes == {100, 200}

OptCommands ==
    {[some |-> FALSE, command |-> KeyboardCommand_Space],
     [some |-> TRUE, command |-> KeyboardCommand_Space]}
    \cup {[some |-> TRUE, command |-> KeyboardCommand_Direction(d)] : d \in Direction}

RECURSIVE LevelLayer_set_cells(_, _)
LevelLayer_set_cells(l, entries) ==
    IF entries = <<>> THEN l
    ELSE CHOOSE rest \in
            {LevelLayer_set_cells(next, Tail(entries)) :
                next \in {LevelLayer_set_cell(l, Head(entries).point, Head(entries).cell)}}
            : TRUE

\* the map: the player on Level 0 at (1,1), Finish to its left, a wall above
\* it, a path to the right through (2,1) and (3,1) to Level 1 at (4,1) with a
\* branch down to (3,2), a blocked cell behind Level 1, and a blocked cell at
\* (0,0) that touches the player's cell by a corner only
OverworldMap(cell_a, cell_b, cell_c) ==
    LevelLayer_set_cells(LevelLayer_new(OverworldCell_Empty),
        << [point |-> <<1, 1>>, cell |-> OverworldCell_Level(0, "Red")],
           [point |-> <<0, 1>>, cell |-> OverworldCell_Finish],
           [point |-> <<1, 0>>, cell |-> OverworldCell_Wall(Surroundings_new)],
           [point |-> <<0, 0>>, cell |-> OverworldCell_BlockedPath(Surroundings_new)],
           [point |-> <<2, 1>>, cell |-> cell_a],
           [point |-> <<3, 1>>, cell |-> cell_b],
           [point |-> <<2, 2>>, cell |-> cell_c],
           [point |-> <<3, 2>>, cell |-> OverworldCell_BlockedPath(Surroundings_new)],
           [point |-> <<4, 1>>, cell |-> OverworldCell_Level(1, "Blue")],
           [point |-> <<5, 1>>, cell |-> OverworldCell_BlockedPath(Surroundings_new)] >>)

InitOverworld ==
    /\ \E cell_a \in {OverworldCell_BlockedPath(Surroundings_new),
                      OverworldCell_ClearPath(Surroundings_new),
                      OverworldCell_Fence(Surroundings_new)},
          cell_b \in {OverworldCell_BlockedPath(Surroundings_new),
                      OverworldCell_ClearPath(Surroundings_new)},
          cell_c \in {OverworldCell_BlockedPath(Surroundings_new), OverworldCell_Empty} :
          overworld = OverworldLevel_from_data(
                          [board |-> OverworldMap(cell_a, cell_b, cell_c),
                           player |-> Cow_new(<<1, 1>>, "Right", <<>>),
                           animation_frame |-> INITIAL_ANIMATION_FRAME])
    /\ overworld_log = [scene |-> "active", kind |-> "new", revealing |-> FALSE,
                        from |-> [board |-> overworld.state.board,
                                  position |-> overworld.state.player.position],
                        next_scene |-> "Continue"]
    /\ IdleLayer /\ IdleStack /\ IdleLevel /\ IdleGod /\ IdleCowLevel /\ IdleEngine

OverworldOthersUnchanged ==
    UNCHANGED <<layer, layer_op, stack, stack_log, level, level_old, level_cmd, god, god_log,
                cow_level, cow_log, engine>>

OverworldStep ==
    /\ ~overworld.panicked /\ overworld_log.scene = "active"
    /\ \E dt \in OverworldStepTimes, opt_command \in OptCommands :
        \E after \in {OverworldLevel_step(overworld, dt, opt_command)} :
          /\ overworld.to_reveal_next = <<>> =>
                overworld.animation_time + dt <= MaxOverworldTime
          /\ overworld' = after.overworld
          /\ overworld_log' = [overworld_log EXCEPT
                !.scene = CASE after.next_scene = "Call" -> "called"
                            [] after.next_scene = "Return(Bool(true))" -> "returned"
                            [] OTHER -> "active",
                !.kind = "step",
                !.revealing = (overworld.to_reveal_next # <<>>),
                !.next_scene = after.next_scene]
    /\ OverworldOthersUnchanged

OverworldReturnedInto ==
    /\ ~overworld.panicked /\ overworld_log.scene = "called"
    /\ \E object \in {"Bool(true)", "Bool(false)", "Null"} :
          /\ overworld' = OverworldLevel_returned_into(overworld, object)
          /\ overworld_log' = [overworld_log EXCEPT
                !.scene = "active", !.kind = "returned_into", !.revealing = FALSE,
                !.from = IF object = "Bool(true)"
                         THEN [board |-> overworld.state.board,
                               position |-> overworld.state.player.position]
                         ELSE @,
                !.next_scene = "Continue"]
    /\ OverworldOthersUnchanged

NextOverworld == OverworldStep \/ OverworldReturnedInto

SpecOverworld == InitOverworld /\ [][NextOverworld]_vars

\* steps keep arriving while the overworld is the active scene
SpecOverworldFair == SpecOverworld /\ WF_vars(OverworldStep)

\* ---------------------------------------------------------------------
\* The reveal of the overworld (overworld_level.rs 143-186, 239-269)

Orthogonal(p, q) ==
    \/ p[1] = q[1] /\ (p[2] - q[2]) \in {0 - 1, 1}
    \/ p[2] = q[2] /\ (p[1] - q[1]) \in {0 - 1, 1}

BlockedCells(board) == {p \in DOMAIN board.layer : board.layer[p].tag = "BlockedPath"}

\* the blocked cells joined to set by chains of orthogonally adjacent blocked cells
RECURSIVE BlockedReach(_, _)
BlockedReach(board, set) ==
    LET next == set \cup {q \in BlockedCells(board) : \E p \in set : Orthogonal(p, q)}
    IN  IF next = set THEN set ELSE BlockedReach(board, next)

\* the blocked cells connected to one of the four neighbours of position
ConnectedBlocked(board, position) ==
    BlockedReach(board, {q \in BlockedCells(board) : Orthogonal(position, q)})

KindOf(cell) == [cell EXCEPT !.surround = 0]

\* a step taken while cells are queued for reveal leaves the player, the
\* animation frame and old_position alone and returns Continue
CommandsIgnored ==
    overworld.to_reveal_next # <<>> =>
        /\ overworld'.state.player = overworld.state.player
        /\ overworld'.state.animation_frame = overworld.state.animation_frame
        /\ overworld'.old_position = overworld.old_position
        /\ overworld_log'.next_scene = "Continue"
        /\ overworld_log'.scene = "active"

\* the step that empties to_reveal_next leaves every cell of the kind it was
\* at returned_into(Bool(true)), except that the blocked cells connected to a
\* neighbour of the player are ClearPath
RevealedAsClaimed ==
    (overworld_log.kind = "step" /\ overworld_log.revealing
            /\ overworld.to_reveal_next = <<>>) =>
        \E before \in {overworld_log.from.board}, after \in {overworld.state.board} :
        \E cleared \in {ConnectedBlocked(before, overworld_log.from.position)} :
            /\ overworld.state.player.position = overworld_log.from.position
            /\ after.default = before.default
            /\ \A p \in DOMAIN before.layer \cup DOMAIN after.layer :
                  KindOf(LevelLayer_get_cell(after, p)) =
                      IF p \in cleared THEN OverworldCell_ClearPath(0)
                      ELSE KindOf(LevelLayer_get_cell(before, p))

\* C39: with steps of positive dt arriving, cells queued for reveal by
\* returned_into(Bool(true)) lead to an empty to_reveal_next; every step
\* before that ignores the player's command; and when the queue empties the
\* BlockedPath cells connected by orthogonally adjacent BlockedPath cells to
\* one of the four neighbours of the player have become ClearPath and every
\* other cell is of the kind it was.  No assertion of the level fails.
C39_RevealTerminates ==
    /\ (overworld.to_reveal_next # <<>>) ~> (overworld.to_reveal_next = <<>>)
    /\ [][CommandsIgnored]_vars
    /\ []RevealedAsClaimed
    /\ [](~overworld.panicked)

\* a reveal has ended that cleared the path (2,1), (3,1) and its branch
\* (3,2) and (2,2), and left the blocked cells at (0,0) and behind Level 1
C39_Witness ==
    /\ overworld_log.kind = "step" /\ overworld_log.revealing
    /\ overworld.to_reveal_next = <<>>
    /\ overworld_log.from.position = <<1, 1>>
    /\ ConnectedBlocked(overworld_log.from.board, <<1, 1>>)
            = {<<2, 1>>, <<3, 1>>, <<3, 2>>, <<2, 2>>}
    /\ LevelLayer_get_cell(overworld.state.board, <<3, 2>>).tag = "ClearPath"
    /\ BlockedCells(overworld.state.board) = {<<0, 0>>, <<5, 1>>}

=============================================================================
